---- MODULE Spec2Model ----
(***************************************************************************)
(* Nibble: the nightly orchestrator (NibbleService), the improvement       *)
(* validator (NibbleAI) and the text edit it applies, the registry of      *)
(* installations (InstallationManager) and the admission guard of the      *)
(* server (security.js).                                                   *)
(*                                                                         *)
(* Text is a sequence of one-character strings.  The marker keyword        *)
(* NIBBLE is written as the single character "N"; every other character  *)
(* stands for itself.  A confidence c of the source is the integer 10*c.   *)
(***************************************************************************)
EXTENDS Integers, Sequences, FiniteSets, TLC

VARIABLES
  mode,          \* which entry point this behaviour exercises
  installations, \* InstallationManager.installations: id -> record
  pin,           \* the arguments of the call under study
  pout,          \* its return value (Pending before it returned)
  today,         \* the current date (new Date() at line 85)
  headFilter,    \* how the platform matches the head parameter of pulls.list
  defaultRev,    \* per repository: revision of the default branch head
  branches,      \* per repository: the nibble working branches that exist
  openPRs,       \* per repository: heads of the open change requests
  pc,            \* per caller: the await it is suspended at
  loc,           \* per caller: the locals of its performNibble invocation
  calls,         \* per caller: provider mutations its invocation issued
  run,           \* the nightly run's loop state and what it did so far
  requests,      \* createAdvancedRateLimiter: key -> timestamps of admitted requests
  violations,    \* createAdvancedRateLimiter: key -> rejections since the last block
  blockedIPs     \* createAdvancedRateLimiter: key -> [until], the block's expiry

\* the three Maps the rate limiter's closure holds
limiterMaps == <<requests, violations, blockedIPs>>

vars == <<mode, installations, pin, pout, today, headFilter, defaultRev, branches, openPRs,
          pc, loc, calls, run, limiterMaps>>

\* new Map() three times: no key has made a request
EmptyMap == [key \in {} |-> 0]
NoRequestsYet ==
  /\ requests = EmptyMap
  /\ violations = EmptyMap
  /\ blockedIPs = EmptyMap

\* JavaScript null, a raised error, and "no value yet", as tagged records
Null == [kind |-> "null"]
Thrown == [kind |-> "throw"]
Pending == [kind |-> "pending"]

Min(a, b) == IF a < b THEN a ELSE b
Max(a, b) == IF a > b THEN a ELSE b

(***************************************************************************)
(* JavaScript string primitives                                            *)
(***************************************************************************)
NL == "\n"

IsSpace(c) == c \in {" ", NL}

\* s.startsWith(prefix)
StartsWith(s, prefix) ==
  /\ Len(prefix) <= Len(s)
  /\ SubSeq(s, 1, Len(prefix)) = prefix

\* sub occurs in s starting at the 1-based position i
OccursAt(s, sub, i) ==
  /\ i >= 1
  /\ i + Len(sub) - 1 <= Len(s)
  /\ SubSeq(s, i, i + Len(sub) - 1) = sub

\* the start positions of sub in s
Positions(s, sub) == {i \in 1..(Len(s) + 1) : OccursAt(s, sub, i)}

\* s.indexOf(sub, from) as a 1-based position, 0 when there is none
IndexFrom(s, sub, from) ==
  LET P == {i \in Positions(s, sub) : i >= from}
  IN  IF P = {} THEN 0 ELSE CHOOSE i \in P : \A j \in P : i <= j

\* s.includes(sub)
Includes(s, sub) == Positions(s, sub) # {}

\* s.trim()
RECURSIVE TrimStart(_)
TrimStart(s) ==
  IF s # <<>> /\ IsSpace(Head(s)) THEN TrimStart(Tail(s)) ELSE s

RECURSIVE TrimEnd(_)
TrimEnd(s) ==
  IF s # <<>> /\ IsSpace(s[Len(s)]) THEN TrimEnd(SubSeq(s, 1, Len(s) - 1)) ELSE s

Trim(s) == TrimEnd(TrimStart(s))

\* s.split('\n'): at least one line, separators dropped
RECURSIVE Split(_)
Split(s) ==
  LET i == IndexFrom(s, <<NL>>, 1)
  IN  IF i = 0 THEN <<s>>
      ELSE <<SubSeq(s, 1, i - 1)>> \o Split(SubSeq(s, i + 1, Len(s)))

\* lines.join('\n')
RECURSIVE Join(_)
Join(lines) ==
  IF lines = <<>> THEN <<>>
  ELSE IF Len(lines) = 1 THEN lines[1]
  ELSE lines[1] \o <<NL>> \o Join(Tail(lines))

\* (s.match(new RegExp(escaped literal, 'g')) || []).length: matches are taken
\* left to right from lastIndex, each next search starting where the previous
\* match ended (one further after an empty match)
RECURSIVE MatchCount(_, _, _)
MatchCount(s, sub, from) ==
  LET i == IndexFrom(s, sub, from)
  IN  IF i = 0 THEN 0
      ELSE 1 + MatchCount(s, sub, IF sub = <<>> THEN i + 1 ELSE i + Len(sub))

\* the replacement patterns String.prototype.replace expands in a string
\* replacement: $$, $&, $ followed by a backtick, $ followed by a quote
Backtick == "BACKTICK"
Quote == "QUOTE"

RECURSIVE ExpandReplacement(_, _, _, _)
ExpandReplacement(r, matched, before, after) ==
  IF r = <<>> THEN <<>>
  ELSE IF Head(r) = "$" /\ Len(r) >= 2 /\ r[2] \in {"$", "&", Backtick, Quote}
       THEN (CASE r[2] = "$" -> <<"$">>
               [] r[2] = "&" -> matched
               [] r[2] = Backtick -> before
               [] r[2] = Quote -> after)
            \o ExpandReplacement(SubSeq(r, 3, Len(r)), matched, before, after)
       ELSE <<Head(r)>> \o ExpandReplacement(Tail(r), matched, before, after)

\* s.replace(searchText, replaceText) with a string pattern: the first
\* occurrence only
Replace(s, searchText, replaceText) ==
  LET i == IndexFrom(s, searchText, 1)
      before == SubSeq(s, 1, i - 1)
      after == SubSeq(s, i + Len(searchText), Len(s))
  IN  IF i = 0 THEN s
      ELSE before \o ExpandReplacement(replaceText, searchText, before, after) \o after

(***************************************************************************)
(* NibbleAI and the analysis/apply half of NibbleService                   *)
(***************************************************************************)
\* 0.7, in tenths
ConfidenceThreshold == 7

\* per_page of the code search
PerPage == 5

\* the predicate of lines.findIndex in analyzeNibbleInFile
IsNibbleLine(line) ==
  /\ Includes(line, <<"N">>)
  /\ \/ StartsWith(Trim(line), <<"#">>)
     \/ StartsWith(Trim(line), <<"/", "/">>)

\* lines.findIndex(...) as a 1-based index, 0 for JavaScript's -1
FindIndex(lines) ==
  LET P == {k \in 1..Len(lines) : IsNibbleLine(lines[k])}
  IN  IF P = {} THEN 0 ELSE CHOOSE k \in P : \A j \in P : k <= j

ValidateSearchText(content, searchText) ==
  MatchCount(content, searchText, 1) = 1

\* the filter callback of removeNibbleComment: the blank-line branch returns
\* true on both of its paths, as does the fall-through
KeepLine(lines, line, nibbleComment) ==
  LET trimmedLine == Trim(line)
      trimmedNibble == Trim(nibbleComment)
  IN  IF trimmedLine = trimmedNibble THEN FALSE
      ELSE IF trimmedLine = <<>> /\ IndexFrom(lines, <<line>>, 1) > 1 THEN TRUE
      ELSE TRUE

RemoveNibbleComment(content, nibbleComment) ==
  LET lines == Split(content)
      Keep(line) == KeepLine(lines, line, nibbleComment)
  IN  Join(SelectSeq(lines, Keep))

\* newContent of applyAIImprovement
NewContent(improvement) ==
  RemoveNibbleComment(
    Replace(improvement.fullContent, improvement.searchText, improvement.replaceText),
    improvement.originalNibble)

\* A search result item together with what the providers answer for it:
\*   [path, fetch, ai], fetch = [ok |-> FALSE] or [ok |-> TRUE, content, sha],
\*   ai = Null (the AI call failed, its answer was malformed or it declined)
\*   or [kind |-> "suggestion", searchText, replaceText, confidence].
AnalyzeNibbleInFile(item) ==
  IF ~item.fetch.ok THEN Thrown
  ELSE
    LET content == item.fetch.content
        lines == Split(content)
        nibbleLineIndex == FindIndex(lines)
    IN  IF nibbleLineIndex = 0 THEN Null
        ELSE IF item.ai.kind = "null" THEN Null
        ELSE IF ~ValidateSearchText(content, item.ai.searchText) THEN Null
        ELSE [kind |-> "improvement",
              file |-> item.path,
              searchText |-> item.ai.searchText,
              replaceText |-> item.ai.replaceText,
              confidence |-> item.ai.confidence,
              originalNibble |-> lines[nibbleLineIndex],
              fileSha |-> item.fetch.sha,
              fullContent |-> content]

AcceptsAtThreshold(improvement) ==
  /\ improvement.kind = "improvement"
  /\ improvement.confidence >= ConfidenceThreshold

\* improvement && improvement.confidence > 0.7
Accepts(improvement) ==
  /\ improvement.kind = "improvement"
  /\ improvement.confidence > ConfidenceThreshold

\* the for loop of findAndAnalyzeNibble, from item k on
RECURSIVE AnalyzeFrom(_, _)
AnalyzeFrom(items, k) ==
  IF k > Len(items) THEN Null
  ELSE LET improvement == AnalyzeNibbleInFile(items[k])
       IN  IF improvement.kind = "throw" THEN AnalyzeFrom(items, k + 1)
           ELSE IF Accepts(improvement) THEN improvement
           ELSE AnalyzeFrom(items, k + 1)

\* what octokit.search.code answers: an error, or the first per_page entries
\* of the platform's index for the query
SearchCode(index, perPage) == SubSeq(index, 1, Min(Len(index), perPage))

\* search = [ok |-> FALSE] or [ok |-> TRUE, index]
FindAndAnalyzeNibble(search) ==
  IF ~search.ok THEN Null
  ELSE LET items == SearchCode(search.index, PerPage)
       IN  IF Len(items) = 0 THEN Null
           ELSE AnalyzeFrom(items, 1)

(***************************************************************************)
(* The hosting platform, as far as performNibble can observe it            *)
(***************************************************************************)
\* bounds of the explored world
MaxDay == 2
MaxRev == 1

Days == 1..MaxDay
Revs == 0..MaxRev

\* the repositories the platform hosts are the keys of defaultRev;
\* RepoUnbound is bound by no installation
RepoNames == DOMAIN defaultRev
RepoUnbound == "acme/z"

Callers == {"nightly", "manual"}

\* `nibble/daily-improvement` and `nibble/daily-improvement-${date}`, as token
\* sequences
BranchPrefix == <<"nibble/daily-improvement">>
BranchName(day) == BranchPrefix \o <<"-", day>>
DayOf(branchName) == branchName[3]

\* the files of a repository that carry a marker, at a revision of the
\* default branch: the push from revision 0 to 1 edits f1 and leaves f2 alone
Paths == {"f1", "f2"}
FileAt(path, rev) ==
  IF path = "f1"
  THEN IF rev = 0 THEN <<"#", "N", NL, "a">>
       ELSE <<"#", "N", NL, "a", "b", IF rev % 2 = 1 THEN "c" ELSE "d">>
  ELSE <<"/", "/", "N", NL, "b">>

\* the blob sha of a file: a fingerprint of its content and nothing else
Sha(content) == <<"sha", content>>

NoBranch == [exists |-> FALSE]
NoPatch == [kind |-> "none"]

\* content of path on a working branch: its base revision's, unless written
BranchFile(branch, path) ==
  IF branch.patch.kind = "patch" /\ branch.patch.path = path
  THEN branch.patch.content
  ELSE FileAt(path, branch.base)

\* pulls.list({state: 'open', head}): the open change requests the platform
\* returns for the head it is passed
ListOpenPRs(repo, head) ==
  {h \in openPRs[repo] :
     IF headFilter = "exact" THEN h = head ELSE StartsWith(h, head)}

\* the answers the AI capability can give for a file
AIAnswers ==
  {Null,
   [kind |-> "suggestion", searchText |-> <<"a">>, replaceText |-> <<"z">>, confidence |-> 8],
   [kind |-> "suggestion", searchText |-> <<"b">>, replaceText |-> <<"z">>, confidence |-> 9]}

\* getContent({path, ref: defaultBranch}) on a repository
GetContent(repo, path, ok) ==
  IF ok
  THEN [ok |-> TRUE,
        content |-> FileAt(path, defaultRev[repo]),
        sha |-> Sha(FileAt(path, defaultRev[repo]))]
  ELSE [ok |-> FALSE]

\* length of the search index explored by the workflow
MaxIndex == 1

\* the search indexes the platform may hold for a repository, each entry with
\* the answers the providers give for it
SearchIndexes(repo) ==
  LET Items == {[path |-> f, fetch |-> GetContent(repo, f, TRUE), ai |-> a] :
                  f \in Paths, a \in AIAnswers}
                \cup {[path |-> f, fetch |-> GetContent(repo, f, FALSE), ai |-> Null] :
                        f \in Paths}
  IN  UNION {[1..n -> Items] : n \in 0..MaxIndex}

(***************************************************************************)
(* InstallationManager: the lookups the orchestrator uses                  *)
(***************************************************************************)
\* the keys of a Map of installations in insertion order, which is the order
\* every iteration over it follows; seq is the rank of an entry in that order
RECURSIVE KeysFrom(_, _)
KeysFrom(reg, ids) ==
  IF ids = {} THEN <<>>
  ELSE LET first == CHOOSE id \in ids : \A other \in ids : reg[id].seq <= reg[other].seq
       IN  <<first>> \o KeysFrom(reg, ids \ {first})

Keys(reg) == KeysFrom(reg, DOMAIN reg)

InSeq(x, seq) == \E k \in 1..Len(seq) : seq[k] = x

GetAllEnabledInstallations ==
  LET ids == SelectSeq(Keys(installations), LAMBDA id : installations[id].enabled)
  IN  [k \in 1..Len(ids) |-> installations[ids[k]]]

\* the identifier of the first installation that binds the repository, 0 for
\* undefined
FindInstallationForRepository(fullName) ==
  LET ids == SelectSeq(Keys(installations),
                       LAMBDA id : InSeq(fullName, installations[id].repositories))
  IN  IF ids = <<>> THEN 0 ELSE Head(ids)

(***************************************************************************)
(* NibbleService.performNibble, one action per await                       *)
(***************************************************************************)
Skipped(reason) == [kind |-> "skipped", reason |-> reason]
Success == [kind |-> "success"]

NewLoc(repo) ==
  [repo |-> repo,
   existingPRs |-> {},
   branchName |-> <<>>,
   sha |-> 0,
   analysed |-> FALSE,
   improvement |-> Null,
   result |-> Pending]

IdleLoc == NewLoc("none")

\* the invocation of caller p leaves performNibble with result
Return(p, result) ==
  /\ pc' = [pc EXCEPT ![p] = "return"]
  /\ loc' = [loc EXCEPT ![p].result = result]

Issued(p, call) == calls' = [calls EXCEPT ![p] = Append(@, call)]

HasSeveralExistingPRs(existingPRs) == Cardinality(existingPRs) > 1

\* existingPRs.data.length > 0
HasExistingPR(existingPRs) == Cardinality(existingPRs) > 0

ListPRs(p) ==
  /\ pc[p] = "listPRs"
  /\ \E ok \in BOOLEAN :
       IF ok
       THEN LET existingPRs == ListOpenPRs(loc[p].repo, BranchPrefix)
            IN  IF HasExistingPR(existingPRs)
                THEN /\ pc' = [pc EXCEPT ![p] = "return"]
                     /\ loc' = [loc EXCEPT ![p].existingPRs = existingPRs,
                                           ![p].result = Skipped("existing_pr")]
                ELSE /\ pc' = [pc EXCEPT ![p] = "getRepo"]
                     /\ loc' = [loc EXCEPT ![p].existingPRs = existingPRs]
       ELSE Return(p, Thrown)
  /\ UNCHANGED <<limiterMaps, mode, installations, pin, pout, today, headFilter, defaultRev,
                 branches, openPRs, calls, run>>

\* repos.get, then the branch name is taken from the current date
GetRepo(p) ==
  /\ pc[p] = "getRepo"
  /\ \E ok \in BOOLEAN :
       IF ok
       THEN /\ pc' = [pc EXCEPT ![p] = "getRef"]
            /\ loc' = [loc EXCEPT ![p].branchName = BranchName(today)]
       ELSE Return(p, Thrown)
  /\ UNCHANGED <<limiterMaps, mode, installations, pin, pout, today, headFilter, defaultRev,
                 branches, openPRs, calls, run>>

GetRef(p) ==
  /\ pc[p] = "getRef"
  /\ \E ok \in BOOLEAN :
       IF ok
       THEN /\ pc' = [pc EXCEPT ![p] = "createRef"]
            /\ loc' = [loc EXCEPT ![p].sha = defaultRev[loc[p].repo]]
       ELSE Return(p, Thrown)
  /\ UNCHANGED <<limiterMaps, mode, installations, pin, pout, today, headFilter, defaultRev,
                 branches, openPRs, calls, run>>

NextAfterCreateRefFailureGoOn == "find"

\* git.createRef raised: performNibble has no handler around it, the error
\* leaves performNibble
NextAfterCreateRefFailure == "return"

\* git.createRef: the platform refuses a reference that already exists
CreateRef(p) ==
  /\ pc[p] = "createRef"
  /\ LET repo == loc[p].repo
         day == DayOf(loc[p].branchName)
     IN  \E ok \in BOOLEAN :
           LET created == ok /\ ~branches[repo][day].exists
           IN  /\ Issued(p, [op |-> "createRef", ok |-> created])
               /\ IF created
                  THEN /\ branches' = [branches EXCEPT ![repo][day] =
                                         [exists |-> TRUE, base |-> loc[p].sha, patch |-> NoPatch]]
                       /\ pc' = [pc EXCEPT ![p] = "find"]
                       /\ loc' = loc
                  ELSE /\ branches' = branches
                       /\ IF NextAfterCreateRefFailure = "return"
                          THEN Return(p, Thrown)
                          ELSE /\ pc' = [pc EXCEPT ![p] = NextAfterCreateRefFailure]
                               /\ loc' = loc
  /\ UNCHANGED <<limiterMaps, mode, installations, pin, pout, today, headFilter, defaultRev,
                 openPRs, run>>

NextAfterFindNoCleanup(improvement) ==
  IF improvement.kind = "null" THEN "return" ELSE "apply"

\* if (!improvement) { deleteRef ... } else applyAIImprovement
NextAfterFind(improvement) ==
  IF improvement.kind = "null" THEN "deleteRef" ELSE "apply"

\* findAndAnalyzeNibble(octokit, owner, repo, defaultBranch): never raises
Find(p) ==
  /\ pc[p] = "find"
  /\ \E search \in {[ok |-> FALSE]} \cup
                   {[ok |-> TRUE, index |-> ix] : ix \in SearchIndexes(loc[p].repo)} :
       LET improvement == FindAndAnalyzeNibble(search)
           next == NextAfterFind(improvement)
       IN  /\ pc' = [pc EXCEPT ![p] = next]
           /\ loc' = [loc EXCEPT ![p].analysed = TRUE,
                                 ![p].improvement = improvement,
                                 ![p].result = IF next = "return"
                                               THEN Skipped("no_improvement_found")
                                               ELSE @]
  /\ UNCHANGED <<limiterMaps, mode, installations, pin, pout, today, headFilter, defaultRev,
                 branches, openPRs, calls, run>>

DeleteRef(p) ==
  /\ pc[p] = "deleteRef"
  /\ LET repo == loc[p].repo
         day == DayOf(loc[p].branchName)
     IN  \E ok \in BOOLEAN :
           LET deleted == ok /\ branches[repo][day].exists
           IN  /\ Issued(p, [op |-> "deleteRef", ok |-> deleted])
               /\ IF deleted
                  THEN /\ branches' = [branches EXCEPT ![repo][day] = NoBranch]
                       /\ Return(p, Skipped("no_improvement_found"))
                  ELSE /\ branches' = branches
                       /\ Return(p, Thrown)
  /\ UNCHANGED <<limiterMaps, mode, installations, pin, pout, today, headFilter, defaultRev,
                 openPRs, run>>

WriteShaOfBranch(p) ==
  LET branch == branches[loc[p].repo][DayOf(loc[p].branchName)]
  IN  IF branch.exists
      THEN Sha(BranchFile(branch, loc[p].improvement.file))
      ELSE loc[p].improvement.fileSha

\* sha: improvement.fileSha
WriteSha(p) == loc[p].improvement.fileSha

NextAfterWriteFailureCreatePR == "createPR"

NextAfterWriteFailureRetry == "apply"

\* createOrUpdateFileContents raised: applyAIImprovement and performNibble
\* have no handler, the error leaves performNibble
NextAfterWriteFailure == "return"

\* applyAIImprovement: the platform accepts the write only when sha is the
\* blob sha of the file on the target branch
Apply(p) ==
  /\ pc[p] = "apply"
  /\ LET repo == loc[p].repo
         day == DayOf(loc[p].branchName)
         branch == branches[repo][day]
         improvement == loc[p].improvement
         overwritten == IF branch.exists THEN BranchFile(branch, improvement.file) ELSE <<>>
     IN  \E ok \in BOOLEAN :
           LET written == ok /\ branch.exists /\ WriteSha(p) = Sha(overwritten)
           IN  /\ Issued(p, [op |-> "write", ok |-> written,
                             analysed |-> improvement.fullContent,
                             overwritten |-> overwritten])
               /\ IF written
                  THEN /\ branches' = [branches EXCEPT ![repo][day].patch =
                                         [kind |-> "patch", path |-> improvement.file,
                                          content |-> NewContent(improvement)]]
                       /\ pc' = [pc EXCEPT ![p] = "createPR"]
                       /\ loc' = loc
                  ELSE /\ branches' = branches
                       /\ pc' = [pc EXCEPT ![p] = NextAfterWriteFailure]
                       /\ loc' = [loc EXCEPT ![p].result =
                                    IF NextAfterWriteFailure = "return" THEN Thrown ELSE @]
  /\ UNCHANGED <<limiterMaps, mode, installations, pin, pout, today, headFilter, defaultRev,
                 openPRs, run>>

\* pulls.create({head: branchName, base: defaultBranch})
CreatePR(p) ==
  /\ pc[p] = "createPR"
  /\ LET repo == loc[p].repo
         head == loc[p].branchName
     IN  \E ok \in BOOLEAN :
           LET opened == ok /\ head \notin openPRs[repo]
           IN  /\ Issued(p, [op |-> "createPR", ok |-> opened])
               /\ IF opened
                  THEN /\ openPRs' = [openPRs EXCEPT ![repo] = @ \cup {head}]
                       /\ Return(p, Success)
                  ELSE /\ openPRs' = openPRs
                       /\ Return(p, Thrown)
  /\ UNCHANGED <<limiterMaps, mode, installations, pin, pout, today, headFilter, defaultRev,
                 branches, run>>

(***************************************************************************)
(* NibbleService.runNightlyNibbles and the manual trigger                  *)
(***************************************************************************)
\* mode "service" explores the schedules in which the trigger of caller p
\* arrives while no other caller is inside a workflow; mode "overlap" lifts
\* the restriction
Arrives(p) ==
  \/ mode = "overlap"
  \/ \A q \in Callers \ {p} : pc[q] = "idle"

IdleRun ==
  [snapshot |-> <<>>, i |-> 0, j |-> 0,
   started |-> <<>>, threw |-> {}, noOctokit |-> {}, slept |-> {}]

\* where the loops go once repository j of installation i is finished with
AfterInstallation(r) ==
  IF r.i + 1 <= Len(r.snapshot)
  THEN [kind |-> "octokit", i |-> r.i + 1, j |-> 0]
  ELSE [kind |-> "end", i |-> Len(r.snapshot) + 1, j |-> 0]

AfterRepo(r) ==
  IF r.j + 1 <= Len(r.snapshot[r.i].repositories)
  THEN [kind |-> "repo", i |-> r.i, j |-> r.j + 1]
  ELSE AfterInstallation(r)

\* the error of performNibble reaches the handler of the installation loop
OnNibbleErrorAbortInstallation(r) == AfterInstallation(r)

\* catch (error) { logger.error(`Error nibbling ...`) } inside the repository
\* loop: the loop goes on with the next repository
OnNibbleError(r) == AfterRepo(r)

\* the nightly run, with its bookkeeping r, moves on to position pos
NightlyContinue(r, pos) ==
  /\ run' = [r EXCEPT !.i = pos.i, !.j = pos.j,
                      !.started = IF pos.kind = "repo"
                                  THEN Append(@, <<pos.i, pos.j>>) ELSE @]
  /\ pc' = [pc EXCEPT !["nightly"] =
              CASE pos.kind = "repo" -> "listPRs"
                [] pos.kind = "octokit" -> "octokit"
                [] pos.kind = "end" -> "idle"]
  /\ loc' = [loc EXCEPT !["nightly"] =
               IF pos.kind = "repo"
               THEN NewLoc(r.snapshot[pos.i].repositories[pos.j])
               ELSE IdleLoc]
  /\ calls' = [calls EXCEPT !["nightly"] = <<>>]

\* cron.schedule('0 2 * * *', ...): runNightlyNibbles up to its first await
CronFires ==
  /\ pc["nightly"] = "idle"
  /\ Arrives("nightly")
  /\ LET snapshot == GetAllEnabledInstallations
         r == [IdleRun EXCEPT !.snapshot = snapshot]
     IN  NightlyContinue(r, AfterInstallation(r))
  /\ UNCHANGED <<limiterMaps, mode, installations, pin, pout, today, headFilter, defaultRev,
                 branches, openPRs>>

\* await this.app.getInstallationOctokit(installation.id)
GetInstallationOctokit ==
  /\ pc["nightly"] = "octokit"
  /\ \E ok \in BOOLEAN :
       IF ok
       THEN NightlyContinue(run, AfterRepo(run))
       ELSE LET r == [run EXCEPT !.noOctokit = @ \cup {run.i}]
            IN  NightlyContinue(r, AfterInstallation(r))
  /\ UNCHANGED <<limiterMaps, mode, installations, pin, pout, today, headFilter, defaultRev,
                 branches, openPRs>>

\* performNibble settled: on an error the catch of the repository loop, else
\* the sleep
NightlyReturn ==
  /\ pc["nightly"] = "return"
  /\ IF loc["nightly"].result.kind = "throw"
     THEN LET r == [run EXCEPT !.threw = @ \cup {<<run.i, run.j>>}]
          IN  NightlyContinue(r, OnNibbleError(r))
     ELSE /\ pc' = [pc EXCEPT !["nightly"] = "sleep"]
          /\ UNCHANGED <<loc, calls, run>>
  /\ UNCHANGED <<limiterMaps, mode, installations, pin, pout, today, headFilter, defaultRev,
                 branches, openPRs>>

\* await this.sleep(5000)
Sleep ==
  /\ pc["nightly"] = "sleep"
  /\ LET r == [run EXCEPT !.slept = @ \cup {<<run.i, run.j>>}]
     IN  NightlyContinue(r, AfterRepo(r))
  /\ UNCHANGED <<limiterMaps, mode, installations, pin, pout, today, headFilter, defaultRev,
                 branches, openPRs>>

\* POST /trigger-nibble/:owner/:repo -> performNibble(owner, repo) without an
\* octokit: the installation is looked up first
ManualTrigger(repo) ==
  /\ pc["manual"] = "idle"
  /\ Arrives("manual")
  /\ calls' = [calls EXCEPT !["manual"] = <<>>]
  /\ IF FindInstallationForRepository(repo) = 0
     THEN /\ pc' = [pc EXCEPT !["manual"] = "return"]
          /\ loc' = [loc EXCEPT !["manual"] = [NewLoc(repo) EXCEPT !.result = Thrown]]
     ELSE /\ pc' = [pc EXCEPT !["manual"] = "lookup"]
          /\ loc' = [loc EXCEPT !["manual"] = NewLoc(repo)]
  /\ UNCHANGED <<limiterMaps, mode, installations, pin, pout, today, headFilter, defaultRev,
                 branches, openPRs, run>>

\* octokit = await this.app.getInstallationOctokit(installation.id)
ManualOctokit ==
  /\ pc["manual"] = "lookup"
  /\ \E ok \in BOOLEAN :
       IF ok
       THEN /\ pc' = [pc EXCEPT !["manual"] = "listPRs"]
            /\ loc' = loc
       ELSE Return("manual", Thrown)
  /\ UNCHANGED <<limiterMaps, mode, installations, pin, pout, today, headFilter, defaultRev,
                 branches, openPRs, calls, run>>

\* the handler replies {success, result} or 500 {error}
ManualReply ==
  /\ pc["manual"] = "return"
  /\ pc' = [pc EXCEPT !["manual"] = "idle"]
  /\ loc' = [loc EXCEPT !["manual"] = IdleLoc]
  /\ calls' = [calls EXCEPT !["manual"] = <<>>]
  /\ UNCHANGED <<limiterMaps, mode, installations, pin, pout, today, headFilter, defaultRev,
                 branches, openPRs, run>>

(***************************************************************************)
(* The environment: time, pushes to the default branch, maintainers        *)
(***************************************************************************)
NextDay ==
  /\ today < MaxDay
  /\ today' = today + 1
  /\ UNCHANGED <<limiterMaps, mode, installations, pin, pout, headFilter, defaultRev,
                 branches, openPRs, pc, loc, calls, run>>

Push(repo) ==
  /\ defaultRev[repo] < MaxRev
  /\ defaultRev' = [defaultRev EXCEPT ![repo] = @ + 1]
  /\ UNCHANGED <<limiterMaps, mode, installations, pin, pout, today, headFilter,
                 branches, openPRs, pc, loc, calls, run>>

\* a maintainer closes an open change request; its branch stays
ClosePR(repo, head) ==
  /\ head \in openPRs[repo]
  /\ openPRs' = [openPRs EXCEPT ![repo] = @ \ {head}]
  /\ UNCHANGED <<limiterMaps, mode, installations, pin, pout, today, headFilter, defaultRev,
                 branches, pc, loc, calls, run>>

(***************************************************************************)
(* Specifications                                                          *)
(***************************************************************************)
\* an entry of the installations Map: the stored fields the model follows
\* and its rank in the Map
InstallationData(id, repositories, enabled, createdAt, updatedAt, seq) ==
  [id |-> id, repositories |-> repositories, enabled |-> enabled,
   createdAt |-> createdAt, updatedAt |-> updatedAt, seq |-> seq]

\* an installation stored at time 0, identifiers in the order of insertion
Installation(id, repositories, enabled) ==
  InstallationData(id, repositories, enabled, 0, 0, id)

\* the service state after construction on a platform hosting repos
InitService(registry, repos) ==
  /\ mode = "service"
  /\ installations = registry
  /\ pin = Null
  /\ pout = Pending
  /\ today = 1
  /\ headFilter \in {"exact", "prefix"}
  /\ defaultRev = [r \in repos |-> 0]
  /\ branches = [r \in repos |-> [d \in Days |-> NoBranch]]
  /\ openPRs = [r \in repos |-> {}]
  /\ pc = [p \in Callers |-> "idle"]
  /\ loc = [p \in Callers |-> IdleLoc]
  /\ calls = [p \in Callers |-> <<>>]
  /\ run = IdleRun
  /\ NoRequestsYet

PerformNibble(p) ==
  \/ ListPRs(p)
  \/ GetRepo(p)
  \/ GetRef(p)
  \/ CreateRef(p)
  \/ Find(p)
  \/ DeleteRef(p)
  \/ Apply(p)
  \/ CreatePR(p)

Nightly ==
  \/ CronFires
  \/ GetInstallationOctokit
  \/ NightlyReturn
  \/ Sleep
  \/ PerformNibble("nightly")

Manual ==
  \/ \E repo \in RepoNames \cup {RepoUnbound} : ManualTrigger(repo)
  \/ ManualOctokit
  \/ ManualReply
  \/ PerformNibble("manual")

Environment ==
  \/ NextDay
  \/ \E repo \in RepoNames : Push(repo)
  \/ \E repo \in RepoNames, day \in Days : ClosePR(repo, BranchName(day))

\* One repository, bound by one installation; nightly runs, manual triggers
\* and the environment, in the schedules where a trigger arrives while no other
\* workflow is in flight.
Registry1 == 1 :> Installation(1, <<"acme/x">>, TRUE)

Init == InitService(Registry1, {"acme/x"})

Next == Nightly \/ Manual \/ Environment

Spec == Init /\ [][Next]_vars

\* The nightly batch over three installations and two repositories.
Registry3 ==
  (1 :> Installation(1, <<"acme/x", "acme/y">>, TRUE)) @@
  (2 :> Installation(2, <<"acme/y">>, FALSE)) @@
  (3 :> Installation(3, <<"acme/x">>, TRUE))

InitBatch == InitService(Registry3, {"acme/x", "acme/y"})

NextBatch == Nightly

SpecBatch == InitBatch /\ [][NextBatch]_vars

(***************************************************************************)
(* Properties of the orchestrator                                          *)
(***************************************************************************)
CallsOf(p, op) == {k \in DOMAIN calls[p] : calls[p][k].op = op}
Succeeded(p, op) == \E k \in CallsOf(p, op) : calls[p][k].ok
Failed(p, op) == \E k \in CallsOf(p, op) : ~calls[p][k].ok

\* the working branch named by the invocation of caller p
OwnBranch(p) == branches[loc[p].repo][DayOf(loc[p].branchName)]

\* performNibble of caller p has returned or raised
Terminated(p) == pc[p] \in {"return", "sleep"}

\* C1: an invocation that created its working branch and terminated without
\* creating a change request has left no working branch behind (the runs in
\* which the platform refused the deletion itself are not counted).
C1_NoOrphanBranch ==
  \A p \in Callers :
    (/\ Terminated(p)
     /\ Succeeded(p, "createRef")
     /\ ~Succeeded(p, "createPR")
     /\ ~Failed(p, "deleteRef"))
    => ~OwnBranch(p).exists

\* C2: when the open-change-request query returned a non-empty result, the
\* invocation has terminated with skipped(existing_pr) and has issued no
\* branch creation, file write, branch deletion or change-request creation.
C2_ExistingPRSkips ==
  \A p \in Callers :
    loc[p].existingPRs # {}
    => /\ Terminated(p)
       /\ loc[p].result = Skipped("existing_pr")
       /\ calls[p] = <<>>

C2_Witness ==
  \E p \in Callers :
    /\ pc[p] = "return"
    /\ loc[p].existingPRs # {}
    /\ loc[p].existingPRs \subseteq openPRs[loc[p].repo]
    /\ loc[p].result = Skipped("existing_pr")

\* C3: when the platform matches the head it is passed exactly, a repository
\* never has two open change requests created by performNibble.
C3_OneOpenPR ==
  headFilter = "exact"
  => \A repo \in RepoNames : Cardinality(openPRs[repo]) <= 1

\* C4: once findAndAnalyzeNibble returned null after the branch was created,
\* the only further provider mutation is the deletion of that branch; the
\* invocation returns skipped exactly when the deletion succeeded, the branch
\* is then gone, and no file write or change request was issued.
C4_CleanupBeforeSkip ==
  \A p \in Callers :
    (loc[p].analysed /\ loc[p].improvement.kind = "null")
    => IF pc[p] = "deleteRef"
       THEN calls[p] = <<[op |-> "createRef", ok |-> TRUE]>>
       ELSE /\ Terminated(p)
            /\ Len(calls[p]) = 2
            /\ calls[p][1] = [op |-> "createRef", ok |-> TRUE]
            /\ calls[p][2].op = "deleteRef"
            /\ loc[p].result = IF calls[p][2].ok
                               THEN Skipped("no_improvement_found")
                               ELSE Thrown
            /\ (pc[p] = "return" /\ calls[p][2].ok) => ~OwnBranch(p).exists

C4_Witness ==
  \E p \in Callers :
    /\ pc[p] = "return"
    /\ loc[p].analysed
    /\ loc[p].improvement.kind = "null"
    /\ loc[p].result = Skipped("no_improvement_found")
    /\ ~OwnBranch(p).exists

\* C5: an execution of performNibble issues at most one file write and at
\* most one change-request creation, and a nightly run executes performNibble
\* at most once for each repository binding it visits.
C5_AtMostOneChange ==
  /\ \A p \in Callers :
       /\ Cardinality(CallsOf(p, "write")) <= 1
       /\ Cardinality(CallsOf(p, "createPR")) <= 1
  /\ \A k1, k2 \in DOMAIN run.started :
       run.started[k1] = run.started[k2] => k1 = k2

C5_Witness ==
  /\ Succeeded("nightly", "write")
  /\ Succeeded("nightly", "createPR")
  /\ Len(run.started) = 3

\* C8: a file write that the platform accepted replaced exactly the content
\* that was analysed; a write whose target differs from the analysed content
\* is rejected, it is the last provider call of the invocation (no retry, no
\* change request) and the invocation ends with the error.
C8_WriteOnlyOverAnalysed ==
  \A p \in Callers :
    \A k \in CallsOf(p, "write") :
      LET c == calls[p][k]
      IN  /\ c.ok => c.analysed = c.overwritten
          /\ c.analysed # c.overwritten
             => /\ ~c.ok
                /\ k = Len(calls[p])
                /\ pc[p] = "return"
                /\ loc[p].result = Thrown
                /\ ~Succeeded(p, "createPR")

C8_Witness ==
  \E p \in Callers :
    \E k \in CallsOf(p, "write") :
      /\ ~calls[p][k].ok
      /\ calls[p][k].analysed # calls[p][k].overwritten
      /\ defaultRev[loc[p].repo] # OwnBranch(p).base

\* the bindings of the snapshot in visiting order
Before(b, i, j) == b[1] < i \/ (b[1] = i /\ b[2] <= j)

Bindings ==
  {<<i, j>> : i \in DOMAIN run.snapshot, j \in 1..2} \cap
  {b \in (DOMAIN run.snapshot) \X (1..2) :
     b[2] <= Len(run.snapshot[b[1]].repositories)}

\* C10: in a nightly run the workflow of every repository binding up to the
\* current position of the loops has been started, whatever the workflows
\* before it did, except for the installations whose octokit could not be
\* obtained; the snapshot holds every enabled installation.
C10_RunContinues ==
  run.snapshot # <<>>
  => /\ run.snapshot = GetAllEnabledInstallations
     /\ \A b \in Bindings :
          (Before(b, run.i, run.j) /\ b[1] \notin run.noOctokit)
          => InSeq(b, run.started)

C10_Witness ==
  /\ pc["nightly"] = "idle"
  /\ run.i = Len(run.snapshot) + 1
  /\ <<1, 1>> \in run.threw
  /\ run.started = << <<1, 1>>, <<1, 2>>, <<2, 1>> >>

(***************************************************************************)
(* The validator, the candidate loop and the text edit on their own        *)
(***************************************************************************)
\* a harness state: one input drawn from inputs, nothing computed yet, no
\* service state
InitPure(m, inputs) ==
  /\ mode = m
  /\ pin \in inputs
  /\ pout = Pending
  /\ installations = <<>>
  /\ today = 1
  /\ headFilter = "exact"
  /\ defaultRev = <<>>
  /\ branches = <<>>
  /\ openPRs = <<>>
  /\ pc = [p \in Callers |-> "idle"]
  /\ loc = [p \in Callers |-> IdleLoc]
  /\ calls = [p \in Callers |-> <<>>]
  /\ run = IdleRun
  /\ NoRequestsYet

Computes(m, result) ==
  /\ mode = m
  /\ pout = Pending
  /\ pout' = result
  /\ UNCHANGED <<limiterMaps, mode, installations, pin, today, headFilter, defaultRev, branches,
                 openPRs, pc, loc, calls, run>>

\* every text over alphabet of length at most n
Texts(alphabet, n) == UNION {[1..k -> alphabet] : k \in 0..n}

MaxContentLen == 4
MaxSearchLen == 2

ValidateInputs ==
  [content : Texts({"a", "b"}, MaxContentLen),
   searchText : Texts({"a", "b"}, MaxSearchLen)]

Validate ==
  Computes("validate",
           [kind |-> "bool", value |-> ValidateSearchText(pin.content, pin.searchText)])

InitValidate == InitPure("validate", ValidateInputs)

NextValidate == Validate

SpecValidate == InitValidate /\ [][NextValidate]_vars

\* C7: validateSearchText answers true exactly when the search text is not
\* empty and occurs in the content at exactly one start position, overlapping
\* occurrences counted.
C7_ExactlyOneStartPosition ==
  pout.kind = "bool"
  => pout.value = (/\ pin.searchText # <<>>
                   /\ Cardinality(Positions(pin.content, pin.searchText)) = 1)

\* number of entries the search index of a repository may hold
MaxItems == 6

\* a file with one marker in which "b" occurs once and "a" twice
MarkedFile == <<"#", "N", NL, "a", "a", "b">>

Suggestion(searchText, replaceText, confidence) ==
  [kind |-> "suggestion", searchText |-> searchText, replaceText |-> replaceText,
   confidence |-> confidence]

Fetched(content) == [ok |-> TRUE, content |-> content, sha |-> Sha(content)]

CandidateKinds == {"error", "declined", "threshold", "ambiguous", "good"}

\* the k-th entry of a search result and what the providers answer for it
Candidate(kind, k) ==
  [path |-> k,
   fetch |-> IF kind = "error" THEN [ok |-> FALSE] ELSE Fetched(MarkedFile),
   ai |-> CASE kind = "threshold" -> Suggestion(<<"b">>, <<"z">>, ConfidenceThreshold)
            [] kind = "ambiguous" -> Suggestion(<<"a">>, <<"z">>, 9)
            [] kind = "good" -> Suggestion(<<"b">>, <<"z">>, 8)
            [] OTHER -> Null]

FindInputs ==
  {[ok |-> FALSE]} \cup
  {[ok |-> TRUE, index |-> [k \in DOMAIN kinds |-> Candidate(kinds[k], k)]] :
     kinds \in UNION {[1..n -> CandidateKinds] : n \in 0..MaxItems}}

FindNibble == Computes("find", FindAndAnalyzeNibble(pin))

InitFind == InitPure("find", FindInputs)

NextFind == FindNibble

SpecFind == InitFind /\ [][NextFind]_vars

\* a candidate whose file could be fetched and holds a marker, for which the
\* AI made a suggestion of confidence above 0.7 whose search text passes
\* validateSearchText against the fetched file
Qualifies(item) ==
  /\ item.fetch.ok
  /\ FindIndex(Split(item.fetch.content)) # 0
  /\ item.ai.kind = "suggestion"
  /\ item.ai.confidence > ConfidenceThreshold
  /\ ValidateSearchText(item.fetch.content, item.ai.searchText)

MaxLines == 4

\* the lines of those files: two spellings of one marker, another marker, a
\* line of code and a blank line
FileLines ==
  {<<"#", "N">>, <<" ", "#", "N">>, <<"/", "/", "N">>, <<"x">>, <<>>}

ApplyInputs ==
  {[path |-> "f1",
    fetch |-> Fetched(Join(lines)),
    ai |-> Suggestion(<<"x">>, replaceText, 8)] :
     lines \in UNION {[1..n -> FileLines] : n \in 1..MaxLines},
     replaceText \in {<<"z">>, <<"y", "z">>}}

\* analyzeNibbleInFile, the acceptance test and the content that
\* applyAIImprovement sends to createOrUpdateFileContents
ApplyAIImprovement ==
  Computes("apply",
           LET improvement == AnalyzeNibbleInFile(pin)
           IN  IF Accepts(improvement)
               THEN [kind |-> "written", improvement |-> improvement,
                     content |-> NewContent(improvement)]
               ELSE Null)

InitApply == InitPure("apply", ApplyInputs)

NextApply == ApplyAIImprovement

SpecApply == InitApply /\ [][NextApply]_vars

\* s with its first occurrence of searchText replaced by replaceText as it
\* stands
ReplacedLiterally(s, searchText, replaceText) ==
  LET i == IndexFrom(s, searchText, 1)
  IN  IF i = 0 THEN s
      ELSE SubSeq(s, 1, i - 1) \o replaceText \o SubSeq(s, i + Len(searchText), Len(s))

WithoutLine(lines, k) == SubSeq(lines, 1, k - 1) \o SubSeq(lines, k + 1, Len(lines))

\* C9: the content written is the fetched content with the one occurrence of
\* the search text replaced by the replacement text and with the originating
\* marker line, and no other line, removed.
C9_OnlyTheMarkerLineRemoved ==
  pout.kind = "written"
  => LET improvement == pout.improvement
         marker == FindIndex(Split(improvement.fullContent))
         replaced == ReplacedLiterally(improvement.fullContent,
                                       improvement.searchText,
                                       improvement.replaceText)
     IN  pout.content = Join(WithoutLine(Split(replaced), marker))

(***************************************************************************)
(* Outcomes, overlap of workflows and the delay between repositories       *)
(***************************************************************************)
\* C11 as stated: performNibble terminates with one of the outcome values
\* success, skipped(reason) or failed(error).
C11_AlwaysAnOutcomeValue ==
  \A p \in Callers :
    Terminated(p) => loc[p].result.kind \in {"success", "skipped", "failed"}

\* C11 amended: performNibble terminates by returning success or
\* skipped(reason), or by raising the error of the step that failed; it returns
\* a value only when every provider mutation it issued succeeded, and a
\* mutation that failed is the last one it issued.
C11_ReturnsOrRaises ==
  \A p \in Callers :
    Terminated(p)
    => LET result == loc[p].result
           ops == [k \in DOMAIN calls[p] |-> calls[p][k].op]
       IN  /\ result.kind \in {"success", "skipped", "throw"}
           /\ \A k \in DOMAIN calls[p] :
                ~calls[p][k].ok => (result = Thrown /\ k = Len(calls[p]))
           /\ result = Success => ops = <<"createRef", "write", "createPR">>
           /\ result = Skipped("no_improvement_found") => ops = <<"createRef", "deleteRef">>
           /\ result = Skipped("existing_pr") => ops = <<>>
           /\ result.kind = "skipped"
              => result.reason \in {"no_improvement_found", "existing_pr"}

C11_Witness ==
  \E p \in Callers :
    /\ pc[p] = "return"
    /\ loc[p].result = Thrown
    /\ Failed(p, "createPR")
    /\ Succeeded(p, "write")

\* The same service with no restriction on when a trigger arrives: the cron
\* job and the HTTP route share one event loop and nothing serialises them.
InitOverlap ==
  /\ mode = "overlap"
  /\ installations = Registry1
  /\ pin = Null
  /\ pout = Pending
  /\ today = 1
  /\ headFilter \in {"exact", "prefix"}
  /\ defaultRev = [r \in {"acme/x"} |-> 0]
  /\ branches = [r \in {"acme/x"} |-> [d \in Days |-> NoBranch]]
  /\ openPRs = [r \in {"acme/x"} |-> {}]
  /\ pc = [p \in Callers |-> "idle"]
  /\ loc = [p \in Callers |-> IdleLoc]
  /\ calls = [p \in Callers |-> <<>>]
  /\ run = IdleRun
  /\ NoRequestsYet

NextOverlap == Nightly \/ Manual

SpecOverlap == InitOverlap /\ [][NextOverlap]_vars

\* an invocation of performNibble by caller p is between its start and its end
InWorkflow(p) ==
  pc[p] \in {"lookup", "listPRs", "getRepo", "getRef", "createRef", "find",
             "deleteRef", "apply", "createPR"}

\* C12: at no time are two per-repository workflows in progress.
C12_OneWorkflowAtATime ==
  Cardinality({p \in Callers : InWorkflow(p)}) <= 1

\* C13: in a nightly run every workflow but the first starts after the delay
\* that follows the workflow started before it.
C13_DelayBeforeNextRepository ==
  \A k \in 2..Len(run.started) : run.started[k - 1] \in run.slept

(***************************************************************************)
(* InstallationManager: the operations on the registry                     *)
(***************************************************************************)
InstallationIds == {1, 2, 3}

EmptyRegistry == [id \in {} |-> Null]

\* the entries of reg renumbered 1, 2, ... in their insertion order
Renumbered(reg) ==
  LET keys == Keys(reg)
  IN  [id \in DOMAIN reg |->
         [reg[id] EXCEPT !.seq = CHOOSE k \in 1..Len(keys) : keys[k] = id]]

\* Map.delete of every identifier in ids
Deleted(reg, ids) == Renumbered([id \in DOMAIN reg \ ids |-> reg[id]])

\* Map.set: an existing key keeps its place, a new one goes last
Stored(reg, data) ==
  LET seq == IF data.id \in DOMAIN reg THEN reg[data.id].seq
             ELSE Cardinality(DOMAIN reg) + 1
  IN  [id \in DOMAIN reg \cup {data.id} |->
         IF id = data.id THEN [data EXCEPT !.seq = seq] ELSE reg[id]]

\* the full names bound by some installation of reg
BoundNames(reg) ==
  UNION {{reg[id].repositories[k] : k \in DOMAIN reg[id].repositories} : id \in DOMAIN reg}

\* repoToInstallations.get(name): the installations that list name, in the
\* order the Map is iterated
RepoToInstallations(reg, name) ==
  SelectSeq(Keys(reg), LAMBDA id : InSeq(name, reg[id].repositories))

\* installations.sort((a, b) => new Date(b.createdAt) - new Date(a.createdAt)):
\* a stable sort, newest first
RECURSIVE NewestFirst(_, _)
NewestFirst(reg, ids) ==
  IF ids = <<>> THEN <<>>
  ELSE LET newest == CHOOSE k \in DOMAIN ids :
                       /\ \A j \in DOMAIN ids : reg[ids[j]].createdAt <= reg[ids[k]].createdAt
                       /\ \A j \in 1..(k - 1) : reg[ids[j]].createdAt < reg[ids[k]].createdAt
       IN  <<ids[newest]>> \o
           NewestFirst(reg, SubSeq(ids, 1, newest - 1) \o SubSeq(ids, newest + 1, Len(ids)))

OnlyTheNextOldest(sorted) == SubSeq(sorted, 2, 2)

\* for (let i = 1; i < installations.length; i++): all but the newest
OldOnes(sorted) == Tail(sorted)

\* the identifiers the second loop passes to this.installations.delete
ToDelete(reg) ==
  UNION {LET sorted == NewestFirst(reg, RepoToInstallations(reg, name))
             old == IF Len(sorted) > 1 THEN OldOnes(sorted) ELSE <<>>
         IN  {old[k] : k \in DOMAIN old} : name \in BoundNames(reg)}

CleanupDuplicateInstallations(reg) == Deleted(reg, ToDelete(reg))

\* number of consecutive runs of the cleanup that are followed
MaxRuns == 2

RepoLists == {<<>>, <<"acme/x">>, <<"acme/y">>, <<"acme/x", "acme/y">>}

\* the registries loadInstallations can read from the file: for each
\* identifier no entry, or an entry with one of the lists and creation times
LoadedRegistries(lists, stamps) ==
  LET Entry == {Null} \cup [repositories : lists, createdAt : stamps]
  IN  {Renumbered([id \in {i \in InstallationIds : f[i] # Null} |->
                     InstallationData(id, f[id].repositories, TRUE,
                                      f[id].createdAt, f[id].createdAt, id)]) :
         f \in [InstallationIds -> Entry]}

\* a registry state, no workflow in flight
InitRegistry(m, registries, at) ==
  /\ mode = m
  /\ installations \in registries
  /\ pin = [n |-> 0, op |-> "load", args |-> Null,
            before |-> installations, first |-> installations,
            prev |-> [op |-> "none", args |-> Null, before |-> installations]]
  /\ pout = Pending
  /\ today = at
  /\ headFilter = "exact"
  /\ defaultRev = <<>>
  /\ branches = <<>>
  /\ openPRs = <<>>
  /\ pc = [p \in Callers |-> "idle"]
  /\ loc = [p \in Callers |-> IdleLoc]
  /\ calls = [p \in Callers |-> <<>>]
  /\ run = IdleRun
  /\ NoRequestsYet

\* cleanupDuplicateInstallations(), with the file it saves
Cleanup ==
  /\ mode = "cleanup"
  /\ pin.n < MaxRuns
  /\ installations' = CleanupDuplicateInstallations(installations)
  /\ pin' = [pin EXCEPT !.n = @ + 1, !.op = "cleanup",
                        !.first = IF pin.n = 0 THEN installations' ELSE @]
  /\ pout' = [kind |-> "saved", file |-> installations']
  /\ UNCHANGED <<limiterMaps, mode, today, headFilter, defaultRev, branches, openPRs, pc, loc,
                 calls, run>>

InitCleanup == InitRegistry("cleanup", LoadedRegistries(RepoLists, 0..MaxDay), MaxDay)

NextCleanup == Cleanup

SpecCleanup == InitCleanup /\ [][NextCleanup]_vars

\* the installations of reg that list name
Binders(reg, name) == {id \in DOMAIN reg : InSeq(name, reg[id].repositories)}

\* C14: a full name that two or more installations with pairwise different
\* createdAt bound before the cleanup is bound afterwards by exactly one
\* installation, the one of them created last.
C14_NewestBindingKept ==
  pin.op = "cleanup"
  => \A name \in BoundNames(pin.before) :
       LET binders == Binders(pin.before, name)
       IN  (/\ Cardinality(binders) >= 2
            /\ \A a, b \in binders :
                 a # b => pin.before[a].createdAt # pin.before[b].createdAt)
           => Binders(installations, name) =
                {CHOOSE a \in binders :
                   \A b \in binders : pin.before[b].createdAt <= pin.before[a].createdAt}

\* C15: after the cleanup no full name is listed by two installations of the
\* registry.
C15_AtMostOneBinder ==
  pin.op = "cleanup"
  => \A name \in BoundNames(installations) :
       Cardinality(Binders(installations, name)) <= 1

C15_Witness ==
  /\ pin.op = "cleanup"
  /\ Cardinality(Binders(pin.before, "acme/x")) = 3
  /\ Cardinality(Binders(pin.before, "acme/y")) = 2
  /\ Cardinality(Binders(installations, "acme/x")) = 1

\* C16: a second run of the cleanup right after a first one leaves the table,
\* and the file saved from it, as the first run left them.
C16_SecondRunChangesNothing ==
  pin.n >= 2 => (installations = pin.first /\ pout.file = pin.first)

C16_Witness ==
  /\ pin.n = 2
  /\ pin.first # pin.before
  /\ installations = pin.first
  /\ DOMAIN installations # {}

\* C17: the cleanup removes no installation record, and a repository that
\* only one installation listed stays listed by it.
C17_NoInstallationRemoved ==
  pin.op = "cleanup"
  => /\ DOMAIN installations = DOMAIN pin.before
     /\ \A id \in DOMAIN pin.before :
          \A name \in BoundNames(pin.before) :
            Binders(pin.before, name) = {id}
            => (id \in DOMAIN installations /\ InSeq(name, installations[id].repositories))

\* number of installations apps.listInstallations may return
MaxListed == 2

\* what the platform answers to a refresh: the listing call fails, or it lists
\* installations (each identifier once), and for each of them the repository
\* listing fails or returns a list
Listings ==
  LET Item == [id : InstallationIds, createdAt : {0, 1},
               repos : {[ok |-> FALSE]} \cup
                       {[ok |-> TRUE, list |-> l] : l \in {<<"acme/x">>, <<"acme/x", "acme/y">>}}]
      Seqs == UNION {[1..n -> Item] : n \in 0..MaxListed}
  IN  {[ok |-> FALSE]} \cup
      {[ok |-> TRUE, items |-> items] :
         items \in {q \in Seqs : \A j, k \in DOMAIN q : q[j].id = q[k].id => j = k}}

NotCleared(reg) == reg

\* this.installations.clear()
Cleared(reg) == EmptyRegistry

\* for (const inst of installations): an installation whose repository
\* listing raised is skipped
RECURSIVE SetListed(_, _, _)
SetListed(reg, items, now) ==
  IF items = <<>> THEN reg
  ELSE LET inst == Head(items)
           next == IF inst.repos.ok
                   THEN Stored(reg, InstallationData(inst.id, inst.repos.list, TRUE,
                                                     inst.createdAt, now, 0))
                   ELSE reg
       IN  SetListed(next, Tail(items), now)

\* refreshInstallationsFromGitHub(), once
Refresh ==
  /\ mode = "refresh"
  /\ pin.n = 0
  /\ \E listing \in Listings :
       /\ pin' = [pin EXCEPT !.n = 1, !.op = "refresh", !.args = listing]
       /\ IF listing.ok
          THEN /\ installations' = SetListed(Cleared(installations), listing.items, today)
               /\ pout' = [kind |-> "returned",
                           count |-> Cardinality(DOMAIN installations'),
                           file |-> installations']
          ELSE /\ installations' = installations
               /\ pout' = Thrown
  /\ UNCHANGED <<limiterMaps, mode, today, headFilter, defaultRev, branches, openPRs, pc, loc,
                 calls, run>>

InitRefresh == InitRegistry("refresh", LoadedRegistries({<<>>, <<"acme/y">>}, {0}), 1)

NextRefresh == Refresh

SpecRefresh == InitRefresh /\ [][NextRefresh]_vars

\* C18: after a refresh that returned, the registry holds exactly the listed
\* installations whose repository listing succeeded, each with exactly the
\* repositories and the creation time listed for it.
C18_RegistryIsTheListing ==
  (pin.op = "refresh" /\ pout.kind = "returned")
  => LET items == pin.args.items
         listed == {k \in DOMAIN items : items[k].repos.ok}
     IN  /\ DOMAIN installations = {items[k].id : k \in listed}
         /\ \A k \in listed :
              /\ installations[items[k].id].repositories = items[k].repos.list
              /\ installations[items[k].id].createdAt = items[k].createdAt
         /\ pout.count = Cardinality(listed)

\* an installation of the table is not listed, one listed installation fails
\* and one succeeds
C18_Witness ==
  /\ pin.op = "refresh"
  /\ pout.kind = "returned"
  /\ \E id \in DOMAIN pin.before :
       \A k \in DOMAIN pin.args.items : pin.args.items[k].id # id
  /\ \E k \in DOMAIN pin.args.items : ~pin.args.items[k].repos.ok
  /\ Cardinality(DOMAIN installations) = 1

\* number of webhook deliveries that are followed
MaxCalls == 2

\* the installation object of a webhook payload: with or without an account,
\* with or without a repositories list
Payloads ==
  {[id |-> id, hasAccount |-> v[1], repositories |-> v[2]] :
     id \in {1, 2},
     v \in {<<TRUE, [present |-> FALSE]>>,
            <<TRUE, [present |-> TRUE, list |-> <<"acme/x">>]>>,
            <<FALSE, [present |-> FALSE]>>}}

\* handleInstallation(installation) at time now: the table afterwards, whether
\* the call raised, and the number of saveInstallations calls
HandleInstallation(reg, installation, now) ==
  IF ~installation.hasAccount
  THEN [threw |-> TRUE, reg |-> reg, writes |-> 0]
  ELSE LET repositories == IF installation.repositories.present
                           THEN installation.repositories.list ELSE <<>>
       IN  [threw |-> FALSE,
            reg |-> Stored(reg, InstallationData(installation.id, repositories, TRUE,
                                                 now, now, 0)),
            writes |-> 1]

RepoNeverExists(repositories, fullName) == FALSE

\* installationData.repositories.find(r => r.full_name === repository.full_name)
RepoExists(repositories, fullName) == InSeq(fullName, repositories)

\* addRepositoryToInstallation(repository, installation) at time now
AddRepositoryToInstallation(reg, repository, installation, now) ==
  IF installation.id \notin DOMAIN reg
  THEN HandleInstallation(reg, installation, now)
  ELSE LET installationData == reg[installation.id]
       IN  IF RepoExists(installationData.repositories, repository)
           THEN [threw |-> FALSE, reg |-> reg, writes |-> 0]
           ELSE [threw |-> FALSE,
                 reg |-> Stored(reg, [installationData EXCEPT
                                        !.repositories = Append(@, repository),
                                        !.updatedAt = now]),
                 writes |-> 1]

\* a webhook handler called op with args ran and had outcome
Delivered(op, args, outcome) ==
  /\ mode = "add"
  /\ pin.n < MaxCalls
  /\ installations' = outcome.reg
  /\ pin' = [pin EXCEPT !.n = @ + 1, !.op = op, !.args = args,
                        !.before = installations,
                        !.prev = [op |-> pin.op, args |-> pin.args, before |-> pin.before]]
  /\ pout' = IF outcome.threw THEN Thrown
             ELSE [kind |-> "returned", writes |-> outcome.writes]
  /\ UNCHANGED <<limiterMaps, mode, today, headFilter, defaultRev, branches, openPRs, pc, loc,
                 calls, run>>

\* webhook push -> scheduleDailyNibble -> addRepositoryToInstallation
AddRepository ==
  \E repository \in {"acme/x", "acme/y"}, installation \in Payloads :
    Delivered("add", [repository |-> repository, installation |-> installation],
              AddRepositoryToInstallation(installations, repository, installation, today))

\* webhook installation.created -> handleInstallation
InstallationCreated ==
  \E installation \in Payloads :
    Delivered("handle", [installation |-> installation],
              HandleInstallation(installations, installation, today))

InitAdd == InitRegistry("add", LoadedRegistries({<<>>, <<"acme/x">>}, {0}), 1)

NextAdd == AddRepository \/ InstallationCreated \/ NextDay

SpecAdd == InitAdd /\ [][NextAdd]_vars

\* C19: on an installation that exists, adding a repository it already lists
\* changes nothing in the table (neither the list nor updatedAt) and saves no
\* file; and a second identical call leaves the table as the first call left
\* it.
C19_AddIsIdempotent ==
  (pin.op = "add" /\ pin.args.installation.id \in DOMAIN pin.before)
  => LET id == pin.args.installation.id
         repository == pin.args.repository
     IN  /\ InSeq(repository, pin.before[id].repositories)
            => (installations = pin.before /\ pout = [kind |-> "returned", writes |-> 0])
         /\ (/\ pin.prev.op = "add"
             /\ pin.prev.args = pin.args
             /\ id \in DOMAIN pin.prev.before)
            => installations = pin.before

\* the first call appended the repository at time 1, the second identical
\* call came at time 2
C19_Witness ==
  /\ pin.op = "add"
  /\ pin.prev.op = "add"
  /\ pin.prev.args = pin.args
  /\ pin.args.installation.id \in DOMAIN pin.prev.before
  /\ ~InSeq(pin.args.repository,
            pin.prev.before[pin.args.installation.id].repositories)
  /\ InSeq(pin.args.repository, installations[pin.args.installation.id].repositories)
  /\ installations[pin.args.installation.id].updatedAt < today
  /\ pout = [kind |-> "returned", writes |-> 0]

\* C20: once addRepositoryToInstallation has returned, the table holds the
\* installation and the installation lists the repository.
C20_RepositoryIsBound ==
  (pin.op = "add" /\ pout.kind = "returned")
  => /\ pin.args.installation.id \in DOMAIN installations
     /\ InSeq(pin.args.repository,
              installations[pin.args.installation.id].repositories)

(***************************************************************************)
(* The registry: validation against the platform                           *)
(***************************************************************************)
\* what app.auth(id) followed by apps.getInstallation answers for one
\* installation: it resolves, or it raises an error carrying an HTTP status,
\* or it raises an error without one
CheckAnswers == {"ok", "status404", "status500", "noStatus"}

AnyError(answer) == answer # "ok"

\* the test of the catch block: error.status === 404
NotFound(answer) == answer = "status404"

\* the first loop: the identifiers pushed to invalidInstallations, in the
\* order the Map yields them
InvalidInstallations(reg, answers) ==
  SelectSeq(Keys(reg), LAMBDA id : NotFound(answers[id]))

\* validateAndCleanInstallations(): the table after the second loop, the
\* count it returns and whether it saved
ValidateAndCleanInstallations(reg, answers) ==
  LET invalid == InvalidInstallations(reg, answers)
  IN  [reg |-> IF Len(invalid) > 0
               THEN Deleted(reg, {invalid[k] : k \in DOMAIN invalid})
               ELSE reg,
       count |-> Len(invalid),
       saved |-> Len(invalid) > 0]

\* validateAndCleanInstallations(), once
ValidateAndClean ==
  /\ mode = "validate"
  /\ pin.n = 0
  /\ \E answers \in [InstallationIds -> CheckAnswers] :
       LET done == ValidateAndCleanInstallations(installations, answers)
       IN  /\ pin' = [pin EXCEPT !.n = 1, !.op = "validate", !.args = answers]
           /\ installations' = done.reg
           /\ pout' = [kind |-> "returned", count |-> done.count, saved |-> done.saved]
  /\ UNCHANGED <<limiterMaps, mode, today, headFilter, defaultRev, branches, openPRs, pc,
                 loc, calls, run>>

InitValidateClean ==
  InitRegistry("validate", LoadedRegistries({<<>>, <<"acme/x">>}, {0}), 1)

NextValidateClean == ValidateAndClean

SpecValidateClean == InitValidateClean /\ [][NextValidateClean]_vars

\* a record of the table without the position the Map keeps it at
Content(data) == [data EXCEPT !.seq = 0]

\* C21: validation removes exactly the installations whose existence check
\* raised a 404; every installation whose check succeeded or raised another
\* error stays with the content it had; the count returned is the number of
\* installations removed.
C21_RemovesExactlyTheMissing ==
  (pin.op = "validate" /\ pout.kind = "returned")
  => LET gone == {id \in DOMAIN pin.before : pin.args[id] = "status404"}
     IN  /\ DOMAIN installations = DOMAIN pin.before \ gone
         /\ \A id \in DOMAIN installations :
              Content(installations[id]) = Content(pin.before[id])
         /\ pout.count = Cardinality(gone)

\* three installations: one is gone, one check fails with another status, one
\* succeeds
C21_Witness ==
  /\ pin.op = "validate"
  /\ pout.kind = "returned"
  /\ DOMAIN pin.before = InstallationIds
  /\ \E a, b, c \in InstallationIds :
       /\ pin.args[a] = "status404"
       /\ pin.args[b] = "status500"
       /\ pin.args[c] = "ok"
       /\ DOMAIN installations = {b, c}
  /\ pout.count = 1

\* C22: no step of handleInstallation, addRepositoryToInstallation,
\* refreshInstallationsFromGitHub or loadInstallations removes an installation
\* identifier from the table.
C22_NoIdentifierRemoved ==
  (pin.op \in {"handle", "add", "refresh", "loadFile"} /\ pout.kind = "returned")
  => DOMAIN pin.before \subseteq DOMAIN installations

(***************************************************************************)
(* The registry: loading the file                                          *)
(***************************************************************************)
\* number of elements of the array in the file
MaxFileLen == 3

\* what readFile and JSON.parse make of the file: readFile raises ENOENT or
\* another error, the text is not JSON, it is a JSON value that cannot be
\* iterated (null, a number, an object), or it is an array whose elements are
\* installation records and nulls
FileElements ==
  {Null} \cup {InstallationData(id, repositories, TRUE, 0, 0, 0) :
                 id \in InstallationIds, repositories \in {<<>>, <<"acme/x">>}}

Files ==
  {[kind |-> k] : k \in {"ENOENT", "EACCES", "invalidJSON", "jsonNull", "number", "object"}}
  \cup {[kind |-> "array", elements |-> e] :
          e \in UNION {[1..n -> FileElements] : n \in 0..MaxFileLen}}

\* for (const installation of installations) this.installations.set(...):
\* reading .id of null raises, and the catch keeps what was set before
RECURSIVE SetLoaded(_, _)
SetLoaded(reg, elements) ==
  IF elements = <<>> THEN reg
  ELSE IF Head(elements) = Null THEN reg
  ELSE SetLoaded(Stored(reg, Head(elements)), Tail(elements))

\* loadInstallations(): the table once its promise has settled; every error
\* is caught by the catch at line 200
LoadInstallations(reg, file) ==
  IF file.kind = "array" THEN SetLoaded(reg, file.elements) ELSE reg

\* the load the constructor starts
Load ==
  /\ mode = "load"
  /\ pin.n = 0
  /\ \E file \in Files :
       /\ pin' = [pin EXCEPT !.n = 1, !.op = "loadFile", !.args = file]
       /\ installations' = LoadInstallations(installations, file)
       /\ pout' = [kind |-> "returned"]
  /\ UNCHANGED <<limiterMaps, mode, today, headFilter, defaultRev, branches, openPRs, pc,
                 loc, calls, run>>

\* this.installations = new Map()
InitLoad == InitRegistry("load", {EmptyRegistry}, 1)

NextLoad == Load

SpecLoad == InitLoad /\ [][NextLoad]_vars

\* the file is not a well-formed array of installation records
Malformed(file) ==
  \/ file.kind \in {"invalidJSON", "jsonNull", "number", "object"}
  \/ /\ file.kind = "array"
     /\ \E k \in DOMAIN file.elements : file.elements[k] = Null

\* C23: loadInstallations never raises; a missing file leaves the table as it
\* was; a malformed file leaves the table empty, with no partially loaded
\* entries.
C23_MalformedFileLoadsNothing ==
  pin.op = "loadFile"
  => /\ pout.kind = "returned"
     /\ pin.args.kind = "ENOENT" => installations = pin.before
     /\ Malformed(pin.args) => installations = EmptyRegistry

(***************************************************************************)
(* The admission guard: createAdvancedRateLimiter                          *)
(***************************************************************************)
\* map.get(key) || fallback
Get(map, key, fallback) == IF key \in DOMAIN map THEN map[key] ELSE fallback

\* map.set(key, value)
Set(map, key, value) ==
  [k \in DOMAIN map \cup {key} |-> IF k = key THEN value ELSE map[k]]

\* map.delete(key)
Delete(map, key) == [k \in DOMAIN map \ {key} |-> map[k]]

MsPerSecond == 1000

Floor(x, d) == x \div d

\* Math.ceil(x / d) for x >= 0
Ceil(x, d) == (x + d - 1) \div d

\* a hook that returned without replying, and the replies the hooks send
NotSent == [sent |-> FALSE, code |-> 0, error |-> "", retryAfter |-> 0]
Sent(code, error, retryAfter) ==
  [sent |-> TRUE, code |-> code, error |-> error, retryAfter |-> retryAfter]

AnyKey(ip) == "a"

\* const key = request.ip
Key(ip) == ip

ForgetAll(times, windowStart) == <<>>

\* userRequests.filter(time => time > windowStart)
RecentRequests(times, windowStart) ==
  SelectSeq(times, LAMBDA time : time > windowStart)

LimitReachedLate(n, maxRequests) == n > maxRequests

\* recentRequests.length >= maxRequests
LimitReached(n, maxRequests) == n >= maxRequests

ViolationsExceeded(n, maxViolations) == n > maxViolations

\* userViolations + 1 >= maxViolations
TooManyViolations(n, maxViolations) == n >= maxViolations

RejectBlockedCounting(maps, key, now) ==
  [maps EXCEPT !.violations = Set(@, key, Get(@, key, 0) + 1),
               !.reply = Sent(429, "IP temporarily blocked",
                              Ceil(maps.blockedIPs[key].until - now, MsPerSecond))]

\* the branch of a blocked address: the reply and nothing else
RejectBlocked(maps, key, now) ==
  [maps EXCEPT !.reply = Sent(429, "IP temporarily blocked",
                              Ceil(maps.blockedIPs[key].until - now, MsPerSecond))]

\* the hook createAdvancedRateLimiter returns, for the request of key at time
\* now: the three Maps afterwards and the reply
AdvancedRateLimiter(maps, options, key, now) ==
  IF key \in DOMAIN maps.blockedIPs /\ now < maps.blockedIPs[key].until
  THEN RejectBlocked(maps, key, now)
  ELSE LET expired == key \in DOMAIN maps.blockedIPs
           blocked == IF expired THEN Delete(maps.blockedIPs, key) ELSE maps.blockedIPs
           counted == IF expired THEN Delete(maps.violations, key) ELSE maps.violations
           windowStart == now - options.windowMs
           userRequests == Get(maps.requests, key, <<>>)
           recentRequests == RecentRequests(userRequests, windowStart)
       IN  IF LimitReached(Len(recentRequests), options.maxRequests)
           THEN LET userViolations == Get(counted, key, 0)
                IN  [requests |-> maps.requests,
                     violations |-> Set(counted, key, userViolations + 1),
                     blockedIPs |->
                       IF TooManyViolations(userViolations + 1, options.maxViolations)
                       THEN Set(blocked, key, [until |-> now + options.blockDuration])
                       ELSE blocked,
                     reply |-> Sent(429, "Too many requests",
                                    Ceil(options.windowMs, MsPerSecond))]
           ELSE [requests |-> Set(maps.requests, key, Append(recentRequests, now)),
                 violations |-> counted,
                 blockedIPs |-> blocked,
                 reply |-> NotSent]

\* the Maps of the closure, with the reply of the request being handled
Maps ==
  [requests |-> requests, violations |-> violations, blockedIPs |-> blockedIPs,
   reply |-> NotSent]

\* what the Maps hold for one caller address; NoBlock when it has no block
NoBlock == 0 - 1
View(maps, ip) ==
  [requests |-> Get(maps.requests, ip, <<>>),
   violations |-> Get(maps.violations, ip, 0),
   blockedUntil |-> IF ip \in DOMAIN maps.blockedIPs THEN maps.blockedIPs[ip].until
                    ELSE NoBlock]

\* caller addresses, and the time that passes between two requests
Ips == {"a", "b"}
Deltas == {0, 500, 1000}

\* the options of the limiter: the shape of createAdvancedRateLimiter's
\* argument, with small values
Options ==
  [maxRequests : {1, 2}, windowMs : {1000}, blockDuration : {500, 1500},
   maxViolations : {1, 2}]

\* number of requests that are followed
MaxHandled == 5

\* the server after start-up: no request handled, Date.now() is pin.now, and
\* calls records every request handled
InitGuard(m, options) ==
  /\ mode = m
  /\ pin \in [options : options, now : {0}]
  /\ pout = Pending
  /\ calls = <<>>
  /\ installations = <<>>
  /\ today = 1
  /\ headFilter = "exact"
  /\ defaultRev = <<>>
  /\ branches = <<>>
  /\ openPRs = <<>>
  /\ pc = [p \in Callers |-> "idle"]
  /\ loc = [p \in Callers |-> IdleLoc]
  /\ run = IdleRun
  /\ NoRequestsYet

\* the state after the hooks ran for request at time now, ending in done
Handled(request, now, done) ==
  /\ requests' = done.requests
  /\ violations' = done.violations
  /\ blockedIPs' = done.blockedIPs
  /\ pin' = [pin EXCEPT !.now = now]
  /\ pout' = done.reply
  /\ calls' = Append(calls, [ip |-> request.ip, request |-> request, now |-> now,
                              reply |-> done.reply,
                              before |-> View(Maps, request.ip),
                              after |-> View(done, request.ip)])
  /\ UNCHANGED <<mode, installations, today, headFilter, defaultRev, branches, openPRs,
                 pc, loc, run>>

\* the limiter hook runs for a request of address ip
RateLimit ==
  /\ mode = "limiter"
  /\ Len(calls) < MaxHandled
  /\ \E ip \in Ips, delta \in Deltas :
       LET now == pin.now + delta
       IN  Handled([ip |-> ip], now, AdvancedRateLimiter(Maps, pin.options, Key(ip), now))

InitLimiter == InitGuard("limiter", Options)

NextLimiter == RateLimit

SpecLimiter == InitLimiter /\ [][NextLimiter]_vars

\* the request calls[i] was let through, was rejected by the window, was
\* rejected by a block
Admitted(i) == ~calls[i].reply.sent
TooManyAt(i) == calls[i].reply.sent /\ calls[i].reply.error = "Too many requests"
BlockedAt(i) == calls[i].reply.sent /\ calls[i].reply.error = "IP temporarily blocked"

\* the positions, from i on, of the requests of the address of calls[i]
OwnFrom(i) ==
  SelectSeq([j \in 1..Len(calls) |-> j], LAMBDA j : j >= i /\ calls[j].ip = calls[i].ip)

\* C24: when an address with no recorded request and no block makes
\* maxRequests+1 requests within one windowMs, the first maxRequests are
\* admitted and exactly the last is rejected as too many requests.
C24_OnlyTheLastOfTheBurstRejected ==
  \A i \in DOMAIN calls :
    LET own == OwnFrom(i)
        m == pin.options.maxRequests
    IN  (/\ calls[i].before.requests = <<>>
         /\ calls[i].before.blockedUntil = NoBlock
         /\ Len(own) >= m + 1
         /\ calls[own[m + 1]].now - calls[i].now < pin.options.windowMs)
        => /\ \A j \in 1..m : Admitted(own[j])
           /\ TooManyAt(own[m + 1])
           /\ calls[own[m + 1]].reply.code = 429

\* two requests admitted and the third rejected, all within the window, with a
\* request of the other address in between
C24_Witness ==
  /\ pin.options.maxRequests = 2
  /\ Len(calls) >= 4
  /\ calls[1].ip = calls[2].ip
  /\ calls[3].ip # calls[1].ip
  /\ calls[4].ip = calls[1].ip
  /\ calls[4].now > calls[1].now
  /\ calls[4].now - calls[1].now < pin.options.windowMs
  /\ Admitted(1) /\ Admitted(2) /\ TooManyAt(4)

\* the requests of address ip admitted at a time in (from, to]
AdmittedIn(ip, from, to) ==
  {j \in DOMAIN calls :
     /\ calls[j].ip = ip
     /\ Admitted(j)
     /\ calls[j].now > from
     /\ calls[j].now <= to}

\* C25: for every address and every sequence of requests at non-decreasing
\* times, the requests admitted in any interval of length windowMs (open at
\* its start, closed at its end) are at most maxRequests.
C25_AtMostMaxRequestsPerWindow ==
  \A ip \in Ips, i \in DOMAIN calls :
    Cardinality(AdmittedIn(ip, calls[i].now - pin.options.windowMs, calls[i].now))
      <= pin.options.maxRequests

\* an address was admitted maxRequests times, rejected, and admitted again
\* once the window had moved on
C25_Witness ==
  \E i, j, l \in DOMAIN calls :
    /\ i < j /\ j < l
    /\ calls[i].ip = calls[j].ip /\ calls[j].ip = calls[l].ip
    /\ Admitted(i) /\ TooManyAt(j) /\ Admitted(l)
    /\ Cardinality(AdmittedIn(calls[i].ip, 0 - 1, calls[l].now)) > pin.options.maxRequests

\* the last request before i at which a block was installed for the address
\* of calls[i], 0 when there is none
LastBlockBefore(i) ==
  LET installs == {j \in 1..(i - 1) :
                     /\ calls[j].ip = calls[i].ip
                     /\ TooManyAt(j)
                     /\ calls[j].after.blockedUntil # NoBlock}
  IN  IF installs = {} THEN 0 ELSE CHOOSE j \in installs : \A other \in installs : other <= j

\* the rejections by the window of the address of calls[i], up to and with i,
\* since the last block was installed for it
RejectionsUpTo(i) ==
  {j \in (LastBlockBefore(i) + 1)..i : calls[j].ip = calls[i].ip /\ TooManyAt(j)}

\* C26: an address becomes blocked once maxViolations of its requests were
\* rejected for exceeding maxRequests within windowMs: the request at which
\* the violation counter reaches maxViolations installs a block whose expiry
\* is the time of that request plus blockDuration, and no earlier rejection
\* installs one.
C26_BlockedAtMaxViolations ==
  \A i \in DOMAIN calls :
    TooManyAt(i)
    => /\ calls[i].after.violations = Cardinality(RejectionsUpTo(i))
       /\ Cardinality(RejectionsUpTo(i)) <= pin.options.maxViolations
       /\ IF Cardinality(RejectionsUpTo(i)) = pin.options.maxViolations
          THEN calls[i].after.blockedUntil = calls[i].now + pin.options.blockDuration
          ELSE calls[i].after.blockedUntil = NoBlock

\* two separate bursts, a window apart, each with a rejection; the second
\* rejection installs the block
C26_Witness ==
  /\ pin.options.maxViolations = 2
  /\ \E i, j \in DOMAIN calls :
       /\ i < j
       /\ calls[i].ip = calls[j].ip
       /\ TooManyAt(i) /\ TooManyAt(j)
       /\ calls[i].after.blockedUntil = NoBlock
       /\ calls[j].now - calls[i].now >= pin.options.windowMs
       /\ \E l \in (i + 1)..(j - 1) : calls[l].ip = calls[i].ip /\ Admitted(l)
       /\ calls[j].after.blockedUntil = calls[j].now + pin.options.blockDuration

\* C27: every request of an address whose block expires in the future is
\* rejected, and the retry-after it is told is a positive whole number of
\* seconds: the remaining time of the block rounded up.
C27_BlockedRequestsRejected ==
  \A i \in DOMAIN calls :
    (calls[i].before.blockedUntil # NoBlock /\ calls[i].now < calls[i].before.blockedUntil)
    => LET remaining == calls[i].before.blockedUntil - calls[i].now
           retryAfter == calls[i].reply.retryAfter
       IN  /\ BlockedAt(i)
           /\ calls[i].reply.code = 429
           /\ retryAfter >= 1
           /\ retryAfter * MsPerSecond >= remaining
           /\ (retryAfter - 1) * MsPerSecond < remaining
           /\ calls[i].after = calls[i].before

\* requests during a block of 1500 ms: one with a second and a half left, one
\* with half a second left
C27_Witness ==
  \E i, j \in DOMAIN calls :
    /\ calls[i].ip = calls[j].ip
    /\ BlockedAt(i) /\ BlockedAt(j)
    /\ calls[i].before.blockedUntil - calls[i].now = 1500
    /\ calls[i].reply.retryAfter = 2
    /\ calls[j].before.blockedUntil - calls[j].now = 500
    /\ calls[j].reply.retryAfter = 1

\* C28: once the expiry of a block has passed, the next request of the
\* address is admitted and its violation counter is zero afterwards, whatever
\* windowMs and blockDuration are.
C28_AdmittedAfterExpiry ==
  \A i \in DOMAIN calls :
    (calls[i].before.blockedUntil # NoBlock /\ calls[i].now >= calls[i].before.blockedUntil)
    => /\ Admitted(i)
       /\ calls[i].after.violations = 0

\* the requests of one address replayed on a limiter that sees no other
\* address: the reply and the stored state after each
RECURSIVE Solo(_, _)
Solo(maps, own) ==
  IF own = <<>> THEN <<>>
  ELSE LET done == AdvancedRateLimiter([maps EXCEPT !.reply = NotSent], pin.options,
                                       Key(Head(own).ip), Head(own).now)
       IN  <<[reply |-> done.reply, after |-> View(done, Head(own).ip)]>>
           \o Solo(done, Tail(own))

\* C29: the decisions made for an address and the state stored for it are
\* those of a run in which no other address makes any request.
C29_AddressesIndependent ==
  \A ip \in Ips :
    LET own == SelectSeq(calls, LAMBDA e : e.ip = ip)
        solo == Solo([requests |-> EmptyMap, violations |-> EmptyMap,
                      blockedIPs |-> EmptyMap, reply |-> NotSent], own)
    IN  \A j \in DOMAIN own :
          /\ own[j].reply = solo[j].reply
          /\ own[j].after = solo[j].after

\* one address is rejected by its block while the other, at the same time,
\* is admitted, and after that the first is rejected again
C29_Witness ==
  \E i, j, l \in DOMAIN calls :
    /\ i < j /\ j < l
    /\ calls[i].ip = calls[l].ip
    /\ calls[j].ip # calls[i].ip
    /\ calls[i].now = calls[j].now
    /\ BlockedAt(i) /\ Admitted(j) /\ BlockedAt(l)

(***************************************************************************)
(* The admission guard: the static filter and the order of the hooks       *)
(***************************************************************************)
UpperCase == <<"A", "B", "C", "D", "E", "F", "G", "H", "I", "J", "K", "L", "M", "N", "O", "P", "Q", "R", "S", "T", "U", "V", "W", "X", "Y", "Z">>
LowerCase == <<"a", "b", "c", "d", "e", "f", "g", "h", "i", "j", "k", "l", "m", "n", "o", "p", "q", "r", "s", "t", "u", "v", "w", "x", "y", "z">>

\* s.toLowerCase(), and the i flag of a pattern
ToLowerCase(s) ==
  [i \in DOMAIN s |->
     IF \E k \in DOMAIN UpperCase : UpperCase[k] = s[i]
     THEN LowerCase[CHOOSE k \in DOMAIN UpperCase : UpperCase[k] = s[i]]
     ELSE s[i]]

\* s matches /sub$/
EndsWith(s, sub) ==
  /\ Len(sub) <= Len(s)
  /\ SubSeq(s, Len(s) - Len(sub) + 1, Len(s)) = sub

\* \w of a regular expression
IsWordChar(c) ==
  \/ \E k \in DOMAIN LowerCase : c \in {LowerCase[k], UpperCase[k]}
  \/ c \in {"0", "1", "2", "3", "4", "5", "6", "7", "8", "9", "_"}

\* s matches /^word\b/
StartsWithWord(s, word) ==
  /\ StartsWith(s, word)
  /\ (Len(s) = Len(word) \/ ~IsWordChar(s[Len(word) + 1]))

\* suspiciousPatterns: the patterns that match anywhere in the URL and the
\* patterns anchored at its end
UrlPatternsAnywhere ==
  { <<"/", ".", "g", "i", "t", "/">>,
    <<"/", ".", "a", "w", "s", "/">>,
    <<"/", ".", "s", "s", "h", "/">>,
    <<"/", "w", "p", "-", "a", "d", "m", "i", "n", "/">>,
    <<"/", "w", "p", "-", "l", "o", "g", "i", "n">>,
    <<"/", "a", "d", "m", "i", "n", "/">>,
    <<"/", "p", "h", "p", "m", "y", "a", "d", "m", "i", "n", "/">>,
    <<"/", "a", "p", "p", "l", "e", "-", "t", "o", "u", "c", "h", "-", "i", "c", "o", "n">>,
    <<"/", ".", "w", "e", "l", "l", "-", "k", "n", "o", "w", "n", "/">>,
    <<"/", "a", "w", "s", "/">>,
    <<"/", "a", "z", "u", "r", "e", "/">>,
    <<"/", "g", "c", "p", "/">>,
    <<"/", "d", "o", "c", "k", "e", "r", "/">>,
    <<"/", "k", "u", "b", "e", "r", "n", "e", "t", "e", "s", "/">> }

UrlPatternsAtEnd ==
  { <<"/", ".", "e", "n", "v">>,
    <<".", "p", "h", "p">>,
    <<".", "s", "q", "l">>,
    <<".", "b", "a", "k">>,
    <<".", "b", "a", "c", "k", "u", "p">>,
    <<".", "o", "l", "d">>,
    <<".", "c", "o", "n", "f", "i", "g">>,
    <<".", "l", "o", "g">>,
    <<"/", "s", "i", "t", "e", "m", "a", "p", ".", "x", "m", "l">>,
    <<"/", "p", "a", "c", "k", "a", "g", "e", ".", "j", "s", "o", "n">>,
    <<"/", "c", "o", "m", "p", "o", "s", "e", "r", ".", "j", "s", "o", "n">>,
    <<"/", "y", "a", "r", "n", ".", "l", "o", "c", "k">>,
    <<"/", "p", "a", "c", "k", "a", "g", "e", "-", "l", "o", "c", "k", ".", "j", "s", "o", "n">> }

\* suspiciousUserAgents, all with the i flag: anchored at the start with a
\* word boundary, anchored at the start, matching anywhere
AgentPatternsWord ==
  { <<"b", "o", "t">>,
    <<"c", "r", "a", "w", "l", "e", "r">>,
    <<"s", "p", "i", "d", "e", "r">> }

AgentPatternsAtStart ==
  { <<"c", "u", "r", "l", "/">>,
    <<"w", "g", "e", "t", "/">>,
    <<"p", "y", "t", "h", "o", "n", "-", "r", "e", "q", "u", "e", "s", "t", "s", "/">>,
    <<"g", "o", "-", "h", "t", "t", "p", "-", "c", "l", "i", "e", "n", "t", "/">> }

AgentPatternsAnywhere ==
  { <<"s", "c", "a", "n", "n", "e", "r">>,
    <<"n", "i", "k", "t", "o">>,
    <<"s", "q", "l", "m", "a", "p">>,
    <<"n", "m", "a", "p">>,
    <<"m", "a", "s", "s", "c", "a", "n">>,
    <<"z", "a", "p", "r", "o", "x", "y">>,
    <<"b", "u", "r", "p", "s", "u", "i", "t", "e">>,
    <<"n", "u", "c", "l", "e", "i">>,
    <<"a", "c", "u", "n", "e", "t", "i", "x">>,
    <<"n", "e", "s", "s", "u", "s">>,
    <<"o", "p", "e", "n", "v", "a", "s">> }

\* allowedHosts, with SERVER_IP not set in the environment
AllowedHosts ==
  { <<"n", "i", "b", "b", "l", "e", ".", "p", "r", "a", "c", "t", "i", "c", "a", "l", "-", "e", "n", "g", "i", "n", "e", "e", "r", ".", "a", "i">>,
    <<"l", "o", "c", "a", "l", "h", "o", "s", "t">>,
    <<"1", "2", "7", ".", "0", ".", "0", ".", "1">>,
    <<"8", "4", ".", "2", "3", "5", ".", "1", "6", "9", ".", "1", "4", "0">> }

\* suspiciousPatterns.some(pattern => pattern.test(url))
SuspiciousUrl(url) ==
  \/ \E sub \in UrlPatternsAnywhere : Includes(url, sub)
  \/ \E sub \in UrlPatternsAtEnd : EndsWith(url, sub)

\* suspiciousUserAgents.some(pattern => pattern.test(userAgent))
SuspiciousUserAgent(userAgent) ==
  LET agent == ToLowerCase(userAgent)
  IN  \/ \E word \in AgentPatternsWord : StartsWithWord(agent, word)
      \/ \E sub \in AgentPatternsAtStart : StartsWith(agent, sub)
      \/ \E sub \in AgentPatternsAnywhere : Includes(agent, sub)

\* the hook blockSuspiciousRequests returns: the reply it sends, if any; a
\* header that is absent reads as the empty string
BlockSuspiciousRequests(request) ==
  IF SuspiciousUrl(ToLowerCase(request.url)) THEN Sent(404, "Not found", 0)
  ELSE IF SuspiciousUserAgent(request.userAgent) THEN Sent(403, "Forbidden", 0)
  ELSE IF request.host \notin AllowedHosts THEN Sent(404, "Not found", 0)
  ELSE NotSent

RateLimiterFirst ==
  <<"securityLogger", "securityHeaders", "advancedRateLimiter",
    "blockSuspiciousRequests", "geoBlock">>

\* the onRequest hooks in the order app.addHook registered them
OnRequestHooks ==
  <<"securityLogger", "securityHeaders", "blockSuspiciousRequests",
    "advancedRateLimiter", "geoBlock">>

\* one hook: securityLogger and geoBlock log, securityHeaders sets headers
RunHook(name, maps, options, request, now) ==
  IF name = "blockSuspiciousRequests"
  THEN [maps EXCEPT !.reply = BlockSuspiciousRequests(request)]
  ELSE IF name = "advancedRateLimiter"
  THEN AdvancedRateLimiter(maps, options, Key(request.ip), now)
  ELSE maps

\* the hooks run in order; once a hook has sent the reply the hooks after it
\* are not run
RECURSIVE RunHooks(_, _, _, _, _)
RunHooks(hooks, maps, options, request, now) ==
  IF hooks = <<>> \/ maps.reply.sent THEN maps
  ELSE RunHooks(Tail(hooks), RunHook(Head(hooks), maps, options, request, now),
                options, request, now)

\* the requests that arrive: one that passes the filter, and one for each way
\* of failing it (a sensitive path in upper case, a command-line client, a
\* host that is not allowed), from each address
RequestShapes ==
  { [url |-> <<"/", "a", "p", "i">>, userAgent |-> <<"M", "o", "z", "i", "l", "l", "a">>, host |-> <<"l", "o", "c", "a", "l", "h", "o", "s", "t">>],
    [url |-> <<"/", ".", "E", "N", "V">>, userAgent |-> <<"M", "o", "z", "i", "l", "l", "a">>, host |-> <<"l", "o", "c", "a", "l", "h", "o", "s", "t">>],
    [url |-> <<"/", "a", "p", "i">>, userAgent |-> <<"C", "u", "r", "l", "/", "8">>, host |-> <<"l", "o", "c", "a", "l", "h", "o", "s", "t">>],
    [url |-> <<"/", "a", "p", "i">>, userAgent |-> <<>>, host |-> <<"e", "v", "i", "l", ".", "i", "o">>] }

Requests ==
  {[ip |-> ip, url |-> shape.url, userAgent |-> shape.userAgent, host |-> shape.host] :
     ip \in Ips, shape \in RequestShapes}

\* the options the server passes to createAdvancedRateLimiter, in shape, with
\* small values
ServerOptions ==
  [maxRequests : {1}, windowMs : {1000}, blockDuration : {1500}, maxViolations : {1, 2}]

\* number of requests that are followed through the hooks, and the time that
\* passes between two of them
MaxHooked == 3
HookDeltas == {0, 1000}

\* a request arrives and the onRequest hooks run
OnRequest ==
  /\ mode = "hooks"
  /\ Len(calls) < MaxHooked
  /\ \E request \in Requests, delta \in HookDeltas :
       LET now == pin.now + delta
       IN  Handled(request, now, RunHooks(OnRequestHooks, Maps, pin.options, request, now))

InitHooks == InitGuard("hooks", ServerOptions)

NextHooks == OnRequest

SpecHooks == InitHooks /\ [][NextHooks]_vars

\* the request has a sensitive path, a scanner's user agent or a host that is
\* not on the allow-list
StaticFilterRejects(request) ==
  \/ SuspiciousUrl(ToLowerCase(request.url))
  \/ SuspiciousUserAgent(request.userAgent)
  \/ request.host \notin AllowedHosts

\* C30: a request the static filter rejects never reaches the rate
\* accounting: the timestamps, the violation counter and the block of every
\* address are what they were, and the reply is the filter's.
C30_FilteredRequestsNotCounted ==
  [][(calls' # calls /\ StaticFilterRejects(calls'[Len(calls')].request))
     => /\ UNCHANGED limiterMaps
        /\ pout'.code \in {403, 404}]_vars

\* an address that has used up its window sends a request the filter rejects
\* and nothing is counted for it; the last request handled reached the limiter
\* and was rejected there
C30_Witness ==
  \E i \in DOMAIN calls :
    /\ StaticFilterRejects(calls[i].request)
    /\ Len(calls[i].before.requests) = pin.options.maxRequests
    /\ calls[i].now - calls[i].before.requests[1] < pin.options.windowMs
    /\ calls[i].after = calls[i].before
    /\ calls[i].reply.sent
    /\ pout.error = "Too many requests"

(***************************************************************************)
(* The static filter on its own                                            *)
(***************************************************************************)
\* request URLs, user agents and Host headers: harmless ones and ones that
\* each test of the filter catches; <<>> is an absent header
FilterUrls ==
  { <<"/", "a", "p", "i">>, <<"/", ".", "E", "N", "V">>, <<"/", "a", ".", "p", "h", "p">>,
    <<"/", "a", ".", "p", "h", "p", "?", "x">>, <<"/", "a", "d", "m", "i", "n", "/", "x">> }

FilterAgents ==
  { <<>>, <<"M", "o", "z", "i", "l", "l", "a">>, <<"C", "u", "r", "l", "/", "8">>, <<"b", "o", "t">>,
    <<"b", "o", "t", "h">> }

FilterHosts ==
  { <<>>, <<"l", "o", "c", "a", "l", "h", "o", "s", "t">>, <<"L", "O", "C", "A", "L", "H", "O", "S", "T">>, <<"l", "o", "c", "a", "l", "h", "o", "s", "t", ":", "3", "0", "0", "0">>,
    <<"1", "2", "7", ".", "0", ".", "0", ".", "1">>, <<"e", "v", "i", "l", ".", "i", "o">> }

FilterInputs == [url : FilterUrls, userAgent : FilterAgents, host : FilterHosts]

\* blockSuspiciousRequests for one request
Filter == Computes("filter", BlockSuspiciousRequests(pin))

InitFilter == InitPure("filter", FilterInputs)

NextFilter == Filter

SpecFilter == InitFilter /\ [][NextFilter]_vars

\* C31: every request whose Host header is not an exact member of the
\* allow-list is rejected with the not-found response (404), whatever its
\* path and user agent are.
C31_UnknownHostIsNotFound ==
  (pout # Pending /\ pin.host \notin AllowedHosts)
  => (pout.sent /\ pout.code = 404)

(***************************************************************************)
(* The shape check of the AI response                                      *)
(***************************************************************************)
\* a JSON value: its typeof, and the value where the check reads it (a
\* number is ten times the number of the source, true is 1 and false is 0);
\* "absent" is a field the object does not have
Absent == [type |-> "absent", value |-> 0]
JsonString == [type |-> "string", value |-> 0]
JsonNull == [type |-> "object", value |-> 0]
JsonNumber(n) == [type |-> "number", value |-> n]
JsonBoolean(b) == [type |-> "boolean", value |-> IF b THEN 1 ELSE 0]

\* the texts the AI can answer: no JSON object in it, an object that does not
\* parse, or an object with these fields
ResponseInputs ==
  {[kind |-> "noJson"], [kind |-> "invalidJson"]} \cup
  [kind : {"object"},
   canImprove : {Absent, JsonString, JsonBoolean(TRUE), JsonBoolean(FALSE)},
   title : {Absent, JsonString, JsonNumber(10)},
   explanation : {Absent, JsonString, JsonNull},
   searchText : {Absent, JsonString, JsonNumber(10)},
   replaceText : {Absent, JsonString},
   confidence : {Absent, JsonString} \cup {JsonNumber(n) : n \in {0 - 1, 0, 9, 10, 11}}]

\* isValidResponse(response)
IsValidResponse(response) ==
  /\ \A field \in {"canImprove", "title", "explanation", "searchText", "replaceText",
                    "confidence"} : response[field] # Absent
  /\ response.canImprove.type = "boolean"
  /\ response.confidence.type = "number"
  /\ response.confidence.value >= 0
  /\ response.confidence.value <= 10

\* parseResponse(responseText, nibbleContext): null, or the parsed object
\* with the metadata of the context added
ParseResponse(response) ==
  IF response.kind # "object" THEN Null
  ELSE IF ~IsValidResponse(response) THEN Null
  ELSE IF response.canImprove.value = 0 THEN Null
  ELSE [kind |-> "suggestion", parsed |-> response, file |-> "nibbleContext.file",
        language |-> "nibbleContext.language",
        originalNibble |-> "nibbleContext.nibbleComment"]

Parse == Computes("parse", ParseResponse(pin))

InitParse == InitPure("parse", ResponseInputs)

NextParse == Parse

SpecParse == InitParse /\ [][NextParse]_vars

\* every required field is present with the type the specification names
WellShaped(response) ==
  /\ response.kind = "object"
  /\ \A field \in {"title", "explanation", "searchText", "replaceText"} :
       response[field].type = "string"
  /\ response.canImprove.type = "boolean"
  /\ response.confidence.type = "number"
  /\ response.confidence.value >= 0
  /\ response.confidence.value <= 10

\* C32: the shape check accepts a suggestion only when title, explanation,
\* searchText and replaceText are strings, confidence is a number within
\* [0,1] and canImprove is a boolean; a response missing a field, with a
\* field of the wrong type or with confidence outside [0,1] yields no
\* suggestion.
C32_OnlyWellShapedAccepted ==
  (pout # Pending /\ pout # Null) => WellShaped(pin)

(***************************************************************************)
(* The order of the provider mutations                                     *)
(***************************************************************************)
\* C33: in every execution of performNibble the provider mutations come in
\* the order branch creation, file write, change-request creation, each issued
\* only after the one before it succeeded: no file write before createRef
\* succeeded, no change request before the file write succeeded.
C33_MutationsInOrder ==
  \A p \in Callers :
    /\ \A k \in CallsOf(p, "createRef") : k = 1
    /\ \A k \in CallsOf(p, "write") :
         \E j \in 1..(k - 1) : calls[p][j].op = "createRef" /\ calls[p][j].ok
    /\ \A k \in CallsOf(p, "createPR") :
         /\ k = 3
         /\ calls[p][k - 1].op = "write" /\ calls[p][k - 1].ok

\* one invocation went through all three mutations, another one stopped at a
\* file write the platform refused
C33_Witness ==
  \E p \in Callers :
    /\ Terminated(p)
    /\ Failed(p, "write")
    /\ ~Succeeded(p, "createPR")
    /\ \E head \in openPRs[loc[p].repo] : head # loc[p].branchName

(***************************************************************************)
(* The admission guard: what a request leaves behind                       *)
(***************************************************************************)
\* C34: a request rejected because its address is blocked changes nothing in
\* the state of the guard: the timestamps, the violation counter and the
\* block expiry stored are the same before and after the request.
C34_BlockedRequestChangesNothing ==
  [][(calls' # calls /\ pout'.error = "IP temporarily blocked")
     => UNCHANGED limiterMaps]_vars

\* a blocked address that has timestamps and violations stored makes two
\* requests during its block, at different times
C34_Witness ==
  \E i, j \in DOMAIN calls :
    /\ i < j
    /\ calls[i].ip = calls[j].ip
    /\ BlockedAt(i) /\ BlockedAt(j)
    /\ calls[i].now < calls[j].now
    /\ calls[j].before.requests # <<>>
    /\ calls[j].before.violations = pin.options.maxViolations
    /\ calls[j].after = calls[i].before

\* C35: once all recorded timestamps of an address are older than windowMs
\* and its block, if any, has expired, the next admission check for it leaves
\* no timestamp older than windowMs, no block entry and no violation counter
\* stored for it, whether or not the address was ever blocked.
C35_StaleRecordCollected ==
  \A i \in DOMAIN calls :
    LET before == calls[i].before
        after == calls[i].after
        now == calls[i].now
    IN  (/\ \A k \in DOMAIN before.requests :
              now - before.requests[k] > pin.options.windowMs
         /\ (before.blockedUntil = NoBlock \/ now >= before.blockedUntil))
        => /\ \A k \in DOMAIN after.requests :
                now - after.requests[k] <= pin.options.windowMs
           /\ after.blockedUntil = NoBlock
           /\ after.violations = 0

\* C36: the violation counter grows by one for each request rejected for
\* exceeding the window, so an address with nothing stored that makes
\* maxRequests+maxViolations requests within one windowMs is blocked by the
\* last of them, and that request is itself answered too many requests.
C36_CountedPerRejectedRequest ==
  \A i \in DOMAIN calls :
    LET own == OwnFrom(i)
        m == pin.options.maxRequests
        n == pin.options.maxRequests + pin.options.maxViolations
        cleaned == /\ calls[i].before.blockedUntil # NoBlock
                   /\ calls[i].now >= calls[i].before.blockedUntil
    IN  /\ TooManyAt(i)
           => calls[i].after.violations
                = (IF cleaned THEN 0 ELSE calls[i].before.violations) + 1
        /\ (/\ calls[i].before = [requests |-> <<>>, violations |-> 0,
                                   blockedUntil |-> NoBlock]
            /\ Len(own) >= n
            /\ calls[own[n]].now - calls[i].now < pin.options.windowMs)
           => /\ \A j \in (m + 1)..n :
                   /\ TooManyAt(own[j])
                   /\ calls[own[j]].after.violations = j - m
              /\ \A j \in 1..(n - 1) : calls[own[j]].after.blockedUntil = NoBlock
              /\ calls[own[n]].after.blockedUntil
                   = calls[own[n]].now + pin.options.blockDuration

\* four requests of one address within one window, two admitted and two
\* rejected; the fourth installs the block
C36_Witness ==
  /\ pin.options.maxRequests = 2
  /\ pin.options.maxViolations = 2
  /\ Len(calls) >= 4
  /\ \A k \in 1..4 : calls[k].ip = calls[1].ip
  /\ calls[4].now > calls[1].now
  /\ calls[4].now - calls[1].now < pin.options.windowMs
  /\ TooManyAt(3) /\ TooManyAt(4)
  /\ calls[3].after.blockedUntil = NoBlock
  /\ calls[4].after.blockedUntil = calls[4].now + pin.options.blockDuration

\* C37: in every reachable state and for every address, the violation
\* counter v satisfies 0 <= v <= maxViolations, and a block entry exists for
\* the address exactly when v equals maxViolations.
C37_BlockedExactlyAtMaxViolations ==
  \A ip \in Ips :
    LET v == Get(violations, ip, 0)
    IN  /\ 0 <= v
        /\ v <= pin.options.maxViolations
        /\ (ip \in DOMAIN blockedIPs) <=> (v = pin.options.maxViolations)

\* one address has been warned once and is not blocked, the other is blocked
C37_Witness ==
  /\ pin.options.maxViolations = 2
  /\ \E ip, other \in Ips :
       /\ Get(violations, ip, 0) = 1
       /\ ip \notin DOMAIN blockedIPs
       /\ Get(violations, other, 0) = 2
       /\ other \in DOMAIN blockedIPs

(***************************************************************************)
(* The registry: the file and the writes in flight                         *)
(***************************************************************************)
\* the server with the table as loaded from the file: pout is the disk (the
\* file, and the writeFile calls that were started and have not completed),
\* pin counts the handlers that ran
InitPersist ==
  /\ mode = "persist"
  /\ installations \in {EmptyRegistry, Registry1}
  /\ pin = [n |-> 0, saves |-> 0]
  /\ pout = [kind |-> "disk", file |-> installations, writing |-> {}]
  /\ today = 1
  /\ headFilter = "exact"
  /\ defaultRev = <<>>
  /\ branches = <<>>
  /\ openPRs = <<>>
  /\ pc = [p \in Callers |-> "idle"]
  /\ loc = [p \in Callers |-> IdleLoc]
  /\ calls = [p \in Callers |-> <<>>]
  /\ run = IdleRun
  /\ NoRequestsYet

\* a webhook handler runs up to its await of saveInstallations: it changed
\* the table, and saveInstallations took Array.from(this.installations.values())
\* and started fs.writeFile with it
HandlerRuns(outcome) ==
  /\ mode = "persist"
  /\ pin.n < MaxCalls
  /\ installations' = outcome.reg
  /\ pin' = [n |-> pin.n + 1, saves |-> pin.saves + outcome.writes]
  /\ pout' = IF outcome.writes > 0
             THEN [pout EXCEPT !.writing = @ \cup {[started |-> pin.saves + 1,
                                                    data |-> outcome.reg]}]
             ELSE pout
  /\ UNCHANGED <<limiterMaps, today, headFilter, defaultRev, branches, openPRs, pc, loc,
                 calls, run, mode>>

\* webhook installation.created -> handleInstallation
InstallationCreatedSaving ==
  \E installation \in Payloads :
    HandlerRuns(HandleInstallation(installations, installation, today))

\* webhook push -> addRepositoryToInstallation
AddRepositorySaving ==
  \E repository \in {"acme/x", "acme/y"}, installation \in Payloads :
    HandlerRuns(AddRepositoryToInstallation(installations, repository, installation, today))

\* one of the fs.writeFile calls in flight completes: the file is what that
\* call was given
WriteCompletes ==
  /\ mode = "persist"
  /\ \E w \in pout.writing :
       pout' = [pout EXCEPT !.file = w.data, !.writing = @ \ {w}]
  /\ UNCHANGED <<limiterMaps, mode, installations, pin, today, headFilter, defaultRev,
                 branches, openPRs, pc, loc, calls, run>>

NextPersist == InstallationCreatedSaving \/ AddRepositorySaving \/ WriteCompletes

SpecPersist == InitPersist /\ [][NextPersist]_vars

\* C38: once every registry mutation has completed, its file write included,
\* the file holds exactly the in-memory table, also when the handlers run
\* concurrently and their writes complete in another order than they started.
C38_FileIsTheTable ==
  (mode = "persist" /\ pout.writing = {}) => pout.file = installations


(***************************************************************************)
(* refreshInstallationsFromGitHub, one action per await, with the lookups  *)
(* of a manual trigger and of a nightly run in between                     *)
(***************************************************************************)
\* the server with a loaded table and no refresh started: pin is the
\* position of the refresh (the table it found, the listing it got, the
\* installations its loop has not reached), pout the last lookup
InitRefreshing ==
  /\ mode = "refreshing"
  /\ installations \in {Registry1, Registry3}
  /\ pin = [phase |-> "idle", before |-> installations, args |-> Null, rest |-> <<>>]
  /\ pout = Pending
  /\ today = 1
  /\ headFilter = "exact"
  /\ defaultRev = <<>>
  /\ branches = <<>>
  /\ openPRs = <<>>
  /\ pc = [p \in Callers |-> "idle"]
  /\ loc = [p \in Callers |-> IdleLoc]
  /\ calls = [p \in Callers |-> <<>>]
  /\ run = IdleRun
  /\ NoRequestsYet

\* the refresh is called and waits for app.auth() and listInstallations
RefreshStarts ==
  /\ mode = "refreshing"
  /\ pin.phase = "idle"
  /\ pin' = [pin EXCEPT !.phase = "listing", !.before = installations]
  /\ UNCHANGED <<limiterMaps, mode, installations, pout, today, headFilter, defaultRev,
                 branches, openPRs, pc, loc, calls, run>>

\* the answers of the platform about installations 1 and 2, all created at 0
Relistings ==
  {listing \in Listings :
     listing.ok => \A k \in DOMAIN listing.items :
                     listing.items[k].id \in {1, 2} /\ listing.items[k].createdAt = 0}

\* listInstallations answers: the refresh raises, or it clears the table and
\* enters its loop, where it waits for the first repository listing
InstallationsListed ==
  /\ mode = "refreshing"
  /\ pin.phase = "listing"
  /\ \E listing \in Relistings :
       IF listing.ok
       THEN /\ installations' = Cleared(installations)
            /\ pin' = [pin EXCEPT !.phase = "loop", !.args = listing, !.rest = listing.items]
       ELSE /\ installations' = installations
            /\ pin' = [pin EXCEPT !.phase = "done", !.args = listing]
  /\ UNCHANGED <<limiterMaps, mode, pout, today, headFilter, defaultRev, branches, openPRs,
                 pc, loc, calls, run>>

\* listReposAccessibleToInstallation answers for the installation the loop
\* is at: it is set, or skipped when the listing raised
RepositoriesListed ==
  /\ mode = "refreshing"
  /\ pin.phase = "loop"
  /\ pin.rest # <<>>
  /\ installations' = SetListed(installations, <<Head(pin.rest)>>, today)
  /\ pin' = [pin EXCEPT !.rest = Tail(@)]
  /\ UNCHANGED <<limiterMaps, mode, pout, today, headFilter, defaultRev, branches, openPRs,
                 pc, loc, calls, run>>

\* the loop is over: the refresh waits for saveInstallations
RefreshSaves ==
  /\ mode = "refreshing"
  /\ pin.phase = "loop"
  /\ pin.rest = <<>>
  /\ pin' = [pin EXCEPT !.phase = "saving"]
  /\ UNCHANGED <<limiterMaps, mode, installations, pout, today, headFilter, defaultRev,
                 branches, openPRs, pc, loc, calls, run>>

\* saveInstallations returned and so does the refresh
RefreshReturns ==
  /\ mode = "refreshing"
  /\ pin.phase = "saving"
  /\ pin' = [pin EXCEPT !.phase = "done"]
  /\ UNCHANGED <<limiterMaps, mode, installations, pout, today, headFilter, defaultRev,
                 branches, openPRs, pc, loc, calls, run>>

\* what a caller that asks about fullName reads from the table now
LookedUp(by, fullName) ==
  [kind |-> "lookup", by |-> by, fullName |-> fullName, phase |-> pin.phase,
   found |-> FindInstallationForRepository(fullName),
   enabled |-> {GetAllEnabledInstallations[k].id : k \in DOMAIN GetAllEnabledInstallations}]

\* POST /trigger-nibble/:owner/:repo -> performNibble without octokit:
\* findInstallationForRepository
ManualTriggerLooksUp ==
  /\ mode = "refreshing"
  /\ \E fullName \in {"acme/x", "acme/y"} : pout' = LookedUp("trigger", fullName)
  /\ UNCHANGED <<limiterMaps, mode, installations, pin, today, headFilter, defaultRev,
                 branches, openPRs, pc, loc, calls, run>>

\* runNightlyNibbles: getAllEnabledInstallations
NightlyRunLists ==
  /\ mode = "refreshing"
  /\ \E fullName \in {"acme/x", "acme/y"} : pout' = LookedUp("nightly", fullName)
  /\ UNCHANGED <<limiterMaps, mode, installations, pin, today, headFilter, defaultRev,
                 branches, openPRs, pc, loc, calls, run>>

NextRefreshing ==
  \/ RefreshStarts
  \/ InstallationsListed
  \/ RepositoriesListed
  \/ RefreshSaves
  \/ RefreshReturns
  \/ ManualTriggerLooksUp
  \/ NightlyRunLists

SpecRefreshing == InitRefreshing /\ [][NextRefreshing]_vars

\* the platform still lists fullName for one of the installations of the
\* listing the refresh got
StillListed(fullName) ==
  /\ pin.args # Null
  /\ pin.args.ok
  /\ \E k \in DOMAIN pin.args.items :
       /\ pin.args.items[k].repos.ok
       /\ InSeq(fullName, pin.args.items[k].repos.list)

\* C39: while a refresh is in progress, a repository that was bound before
\* the call and that the platform still lists is never reported as unbound:
\* a lookup by a manual trigger or a nightly run finds an installation for
\* it, and that installation is among the enabled ones.
C39_BoundStaysBoundDuringRefresh ==
  (/\ mode = "refreshing"
   /\ pout # Pending
   /\ pout.phase \in {"loop", "saving"}
   /\ pout.fullName \in BoundNames(pin.before)
   /\ StillListed(pout.fullName))
  => (pout.found # 0 /\ pout.found \in pout.enabled)


(***************************************************************************)
(* Two invocations of performNibble on one repository and one date         *)
(***************************************************************************)
\* this step is a provider call of one of the kinds ops by the invocation
\* of caller p
IssuesNow(p, ops) ==
  /\ Len(calls'[p]) = Len(calls[p]) + 1
  /\ calls'[p][Len(calls'[p])].op \in ops

\* the invocation of caller p created the working branch and has not deleted
\* it
CreatedAndKept(p) == Succeeded(p, "createRef") /\ ~Succeeded(p, "deleteRef")

SameBranch(p, q) ==
  loc[p].repo = loc[q].repo /\ loc[p].branchName = loc[q].branchName

\* C40: when two invocations of performNibble for one repository on one date
\* are interleaved, an invocation deletes or writes to the working branch only
\* if its own branch creation succeeded, and never while the branch is one
\* that the other invocation created and kept; and an invocation asks for a
\* change request only when none is open for the branch and the other
\* invocation has created none.
C40_OnlyTheCreatorTouchesTheBranch ==
  [][\A p \in Callers :
       /\ IssuesNow(p, {"deleteRef", "write"})
          => /\ Succeeded(p, "createRef")
             /\ OwnBranch(p).exists
             /\ \A q \in Callers \ {p} : ~(SameBranch(p, q) /\ CreatedAndKept(q))
       /\ IssuesNow(p, {"createPR"})
          => /\ Succeeded(p, "createRef")
             /\ loc[p].branchName \notin openPRs[loc[p].repo]
             /\ \A q \in Callers \ {p} : ~(SameBranch(p, q) /\ Succeeded(q, "createPR"))]_vars

\* both callers are inside performNibble for the same repository and date:
\* the branch creation of one was refused, the other created the branch and
\* has written to it or deleted it
C40_Witness ==
  \E p \in Callers : \E q \in Callers \ {p} :
    /\ mode = "overlap"
    /\ SameBranch(p, q)
    /\ Failed(q, "createRef")
    /\ Succeeded(p, "createRef")
    /\ (Succeeded(p, "write") \/ Succeeded(p, "deleteRef"))

====
